---- MODULE Spec2Model ----
(***************************************************************************)
(* The keyboard / text-input state machine of skylight                     *)
(* (src/src/input/keyboard/keyboard.rs, event.rs), the window that owns a  *)
(* Keyboard (window/inner.rs, wnd.rs), the window-class registry           *)
(* (window/class.rs) and the per-thread COM library handle (proc.rs).      *)
(*                                                                         *)
(* A Keyboard is the four fields pressed, input_queue, n_backspaces and    *)
(* pending_surrogate.  Characters are Unicode scalar values written as     *)
(* their code points, UTF-16 code units as numbers in 0..65535.            *)
(***************************************************************************)
EXTENDS Integers, Sequences, FiniteSets

(***************************************************************************)
(* Program constants.                                                      *)
(***************************************************************************)
INPUT_QUEUE_CAPACITY == 32

BACKSPACE == 8

REPLACEMENT_CHARACTER == 65533            \* U+FFFD

(***************************************************************************)
(* Bounds of the model.                                                    *)
(***************************************************************************)
\* longest text the unbounded edit buffer may hold in Spec
MaxText == 3
\* most backspaces that may be pending at once in Spec
MaxBackspaces == 2
\* number of Input events of the scripted stream in SpecTrim
MaxTyped == 35
\* number of Input events of the scripted stream in SpecFull
MaxFull == 35
\* number of Input events of the scripted stream in SpecOrder
MaxOrder == 64

(***************************************************************************)
(* Inputs.                                                                 *)
(***************************************************************************)
\* KeyCode values used as key_code: Left (0x25) and A (0x41)
KeyCodes == {37, 65}

\* lparam words as the four bytes of (lparam as u32).to_be_bytes():
\* 0x001E0001 initial press, 0x401E0001 auto-repeat press,
\* 0xC01E0001 release, 0x801E0001 release with previous state up
KeyDownParams == {<<0, 30, 0, 1>>, <<64, 30, 0, 1>>}

KeyUpParams == {<<192, 30, 0, 1>>, <<128, 30, 0, 1>>}

CharParam == <<0, 30, 0, 1>>

\* code units sent as Input events in Spec: backspace, tab, ESC, 'a',
\* the high surrogate 0xD834 and the low surrogate 0xDD1E
InputUnits == {8, 9, 27, 97, 55348, 56606}

\* code units sent as Input events between key transitions in SpecKeys
KeyChars == {97, 8, 55348}

\* the scripted stream of SpecTrim: the letter of position i, as the test
\* string "abc..." cycles, or in the last two positions of every period one
\* of the special units (backspace, a high surrogate, a low surrogate)
StreamPeriod == 16

Letter(i) == 97 + (i % 26)

SpecialUnits == {8, 55348, 56606}

StreamUnits(i) ==
    {Letter(i)} \cup (IF i % StreamPeriod >= StreamPeriod - 2 THEN SpecialUnits ELSE {})

\* the scripted stream of SpecFull: letters until the queue holds
\* INPUT_QUEUE_CAPACITY - 1 characters, then letters or special units
FullUnits(i) ==
    {Letter(i)} \cup (IF i >= INPUT_QUEUE_CAPACITY - 1 THEN SpecialUnits ELSE {})

\* the scripted stream of SpecOrder: a letter or a backspace in the first
\* two positions, letters until one has been evicted, then backspaces
OrderUnits(i) ==
    IF i < 2 THEN {Letter(i), BACKSPACE}
    ELSE IF i < INPUT_QUEUE_CAPACITY THEN {Letter(i)}
    ELSE {BACKSPACE}

(***************************************************************************)
(* std: UTF-16 decoding and character classes.                             *)
(***************************************************************************)
\* u16::is_utf16_surrogate
is_utf16_surrogate(u) == u >= 55296 /\ u <= 57343      \* 0xD800..=0xDFFF

Ok(c) == [ok |-> TRUE, val |-> c]

Err(u) == [ok |-> FALSE, val |-> u]

\* decode_utf16 that forgets the 0x10000 offset of a combined pair
RECURSIVE decode_utf16_no_offset(_)
decode_utf16_no_offset(units) ==
    IF units = <<>> THEN <<>>
    ELSE LET u == Head(units)
             rest == Tail(units)
         IN  IF ~is_utf16_surrogate(u) THEN <<Ok(u)>> \o decode_utf16_no_offset(rest)
             ELSE IF u >= 56320 THEN <<Err(u)>> \o decode_utf16_no_offset(rest)
             ELSE IF rest = <<>> THEN <<Err(u)>>
             ELSE LET u2 == Head(rest)
                  IN  IF u2 < 56320 \/ u2 > 57343
                      THEN <<Err(u)>> \o decode_utf16_no_offset(rest)
                      ELSE <<Ok(((u % 1024) * 1024) + (u2 % 1024))>>
                           \o decode_utf16_no_offset(Tail(rest))

\* char::decode_utf16 over a sequence of code units, collected: the
\* sequence of Result<char, DecodeUtf16Error> the iterator yields
RECURSIVE decode_utf16(_)
decode_utf16(units) ==
    IF units = <<>> THEN <<>>
    ELSE LET u == Head(units)
             rest == Tail(units)
         IN  IF ~is_utf16_surrogate(u) THEN <<Ok(u)>> \o decode_utf16(rest)
             ELSE IF u >= 56320 THEN <<Err(u)>> \o decode_utf16(rest)  \* a trailing surrogate
             ELSE IF rest = <<>> THEN <<Err(u)>>
             ELSE LET u2 == Head(rest)
                  IN  IF u2 < 56320 \/ u2 > 57343
                      THEN \* not a trailing surrogate: u2 is decoded again
                           <<Err(u)>> \o decode_utf16(rest)
                      ELSE <<Ok((((u % 1024) * 1024) + (u2 % 1024)) + 65536)>>
                           \o decode_utf16(Tail(rest))

\* char::is_control: general category Cc
is_control(c) == (c >= 0 /\ c <= 31) \/ (c >= 127 /\ c <= 159)

\* char::is_whitespace: property White_Space
is_whitespace(c) ==
    \/ (c >= 9 /\ c <= 13)
    \/ c \in {32, 133, 160, 5760, 8232, 8233, 8239, 8287, 12288}
    \/ (c >= 8192 /\ c <= 8202)

(***************************************************************************)
(* KeystrokeFlags, decoded from the big-endian bytes of the lparam word.   *)
(***************************************************************************)
KeystrokeFlagsFrom(bytes) ==
    [ is_key_release          |-> (bytes[1] \div 128) % 2 = 1,
      was_previous_state_down |-> (bytes[1] \div 64) % 2 = 1,
      is_alt_pressed          |-> (bytes[1] \div 32) % 2 = 1,
      is_extended_key         |-> bytes[1] % 2 = 1,
      scan_code               |-> bytes[2],
      repeat_count            |-> bytes[3] * 256 + bytes[4] ]

(***************************************************************************)
(* KeyEvent values.                                                        *)
(***************************************************************************)
KeyDownEvt(k, lparam) ==
    [type |-> "KeyDown", key_code |-> k, wchar |-> 0, flags |-> KeystrokeFlagsFrom(lparam)]

KeyUpEvt(k, lparam) ==
    [type |-> "KeyUp", key_code |-> k, wchar |-> 0, flags |-> KeystrokeFlagsFrom(lparam)]

InputEvt(w, lparam) ==
    [type |-> "Input", key_code |-> 0, wchar |-> w, flags |-> KeystrokeFlagsFrom(lparam)]

NoEvt ==
    [type |-> "None", key_code |-> 0, wchar |-> 0, flags |-> KeystrokeFlagsFrom(<<0, 0, 0, 0>>)]

(***************************************************************************)
(* The Keyboard.                                                           *)
(***************************************************************************)
VARIABLES
    pressed,            \* the bit array, as the set of indices whose bit is set
    input_queue,        \* VecDeque<char>, head first
    n_backspaces,
    pending_surrogate,  \* Option<WideChar>: None, or Some(u) as <<u>>
    drained,            \* the InputBuffer the last drain_input returned
    lastEvt,            \* the operation that produced this state
    held,               \* history: keys whose latest transition is a genuine press
    input_since_drain,  \* history: an Input event was processed since new / drain_input
    fresh_run,          \* history: characters queued on the fresh keyboard so far
    evicted,            \* history: the trim loop has dropped a character
    reset_called,       \* history: reset has been called
    text,               \* the caller's text, rebuilt from each InputBuffer
    edit,               \* the unbounded edit buffer fed every resolved character
    typed               \* position in the scripted stream (SpecTrim)

kbdVars == <<pressed, input_queue, n_backspaces, pending_surrogate>>

(***************************************************************************)
(* Messages, the window, the window-class registry and the COM handle.     *)
(***************************************************************************)
VARIABLES
    lastMsg,            \* the WindowsProcessMessage last adapted or dispatched
    adapted,            \* the Option<KeyEvent> made of it: None, or Some(evt)
    hwnd,               \* WindowInner::hwnd, 0 for the null handle
    close_request,      \* WindowInner::close_request
    paint_request,      \* WindowInner::paint_request
    user_data,          \* GWLP_USERDATA of the Win32 window: 1 the WindowInner, 0 cleared
    strong,             \* strong count of the Rc<WindowInner>
    window,             \* "live" while the Window object exists, then "dropped"
    handled,            \* what handle_message returned for lastMsg
    lastWin,            \* the window operation that produced this state
    registry,           \* WINDOW_REGISTRATIONS: class name -> object id, 0 if vacant
    classes,            \* the WindowClass objects: id -> [name, strong, state]
    sys_classes,        \* class names registered with the system
    lastCls,            \* the registry operation that produced this state
    com_weak,           \* COM_LIBRARY_HANDLE of each thread: handle id, 0 for Weak::new()
    com_strong,         \* strong count of the handle com_weak points to
    com_init,           \* per thread: CoInitializeEx calls not yet balanced
    lastCom             \* the COM operation that produced this state

evtVars == <<lastMsg, adapted>>

winVars == <<hwnd, user_data, close_request, paint_request, strong, window, handled,
            lastWin>>

clsVars == <<registry, classes, sys_classes, lastCls>>

comVars == <<com_weak, com_strong, com_init, lastCom>>

VARIABLES
    order               \* history (SpecOrder): when each queued character arrived,
                        \* when each counted backspace was processed, and how many
                        \* characters queued since the last drain were lost undrained

VARIABLES
    guard,              \* a guard returned by Window::keyboard() is outstanding
    waiting             \* the message whose handle_message waits in keyboard.write():
                        \* None, or Some(msg)

lockVars == <<guard, waiting>>

vars == <<pressed, input_queue, n_backspaces, pending_surrogate, drained, lastEvt,
          held, input_since_drain, fresh_run, evicted, reset_called, text, edit, typed,
          evtVars, winVars, clsVars, comVars, order, lockVars>>

None == <<>>

Some(u) == <<u>>

Self ==
    [ pressed           |-> pressed,
      input_queue       |-> input_queue,
      n_backspaces      |-> n_backspaces,
      pending_surrogate |-> pending_surrogate ]

\* Keyboard::new
new ==
    [ pressed           |-> {},
      input_queue       |-> <<>>,
      n_backspaces      |-> 0,
      pending_surrogate |-> None ]

\* apply_char with push_front for push_back
apply_char_push_front(self, c) ==
    IF c = BACKSPACE
    THEN IF self.input_queue # <<>>
         THEN [self EXCEPT !.input_queue = SubSeq(@, 1, Len(@) - 1)]
         ELSE [self EXCEPT !.n_backspaces = @ + 1]
    ELSE IF is_control(c) /\ ~is_whitespace(c)
    THEN self
    ELSE [self EXCEPT !.input_queue = <<c>> \o @]

\* apply_char with pop_front for pop_back
apply_char_pops_front(self, c) ==
    IF c = BACKSPACE
    THEN IF self.input_queue # <<>>
         THEN [self EXCEPT !.input_queue = Tail(@)]
         ELSE [self EXCEPT !.n_backspaces = @ + 1]
    ELSE IF is_control(c) /\ ~is_whitespace(c)
    THEN self
    ELSE [self EXCEPT !.input_queue = Append(@, c)]

\* apply_char counting every backspace, also one that removed a character
apply_char_counts_every_backspace(self, c) ==
    IF c = BACKSPACE
    THEN IF self.input_queue # <<>>
         THEN [self EXCEPT !.input_queue = SubSeq(@, 1, Len(@) - 1),
                           !.n_backspaces = @ + 1]
         ELSE [self EXCEPT !.n_backspaces = @ + 1]
    ELSE IF is_control(c) /\ ~is_whitespace(c)
    THEN self
    ELSE [self EXCEPT !.input_queue = Append(@, c)]

\* apply_char dropping every control character, whitespace or not
apply_char_drops_whitespace_controls(self, c) ==
    IF c = BACKSPACE
    THEN IF self.input_queue # <<>>
         THEN [self EXCEPT !.input_queue = SubSeq(@, 1, Len(@) - 1)]
         ELSE [self EXCEPT !.n_backspaces = @ + 1]
    ELSE IF is_control(c)
    THEN self
    ELSE [self EXCEPT !.input_queue = Append(@, c)]

\* apply_char counting the backspace that removed a character, not the one
\* that found the queue empty
apply_char_counts_removing_backspace(self, c) ==
    IF c = BACKSPACE
    THEN IF self.input_queue # <<>>
         THEN [self EXCEPT !.input_queue = SubSeq(@, 1, Len(@) - 1),
                           !.n_backspaces = @ + 1]
         ELSE self
    ELSE IF is_control(c) /\ ~is_whitespace(c)
    THEN self
    ELSE [self EXCEPT !.input_queue = Append(@, c)]

\* the for loop of process_char_input over one character
apply_char(self, c) ==
    IF c = BACKSPACE
    THEN IF self.input_queue # <<>>
         THEN [self EXCEPT !.input_queue = SubSeq(@, 1, Len(@) - 1)]
         ELSE [self EXCEPT !.n_backspaces = @ + 1]
    ELSE IF is_control(c) /\ ~is_whitespace(c)
    THEN self
    ELSE [self EXCEPT !.input_queue = Append(@, c)]

RECURSIVE apply_chars(_, _)
apply_chars(self, chars) ==
    IF chars = <<>> THEN self
    ELSE apply_chars(apply_char(self, Head(chars)), Tail(chars))

\* trim_queue with > for >=
RECURSIVE trim_queue_keeps_capacity(_)
trim_queue_keeps_capacity(q) ==
    IF Len(q) > INPUT_QUEUE_CAPACITY THEN trim_queue_keeps_capacity(Tail(q)) ELSE q

\* trim_queue with pop_back for pop_front
RECURSIVE trim_queue_pops_back(_)
trim_queue_pops_back(q) ==
    IF Len(q) >= INPUT_QUEUE_CAPACITY
    THEN trim_queue_pops_back(SubSeq(q, 1, Len(q) - 1))
    ELSE q

\* the while loop of process_char_input
RECURSIVE trim_queue(_)
trim_queue(q) ==
    IF Len(q) >= INPUT_QUEUE_CAPACITY THEN trim_queue(Tail(q)) ELSE q

\* process_char_input without the trim loop after the characters
process_char_input_no_trim(self, chars) ==
    apply_chars(self, chars)

\* Keyboard::process_char_input
process_char_input(self, chars) ==
    LET looped == apply_chars(self, chars)
    IN  [looped EXCEPT !.input_queue = trim_queue(@)]

\* unwrap_or that falls back to the undecodable code unit itself
RECURSIVE unwrap_or_unit(_)
unwrap_or_unit(results) ==
    IF results = <<>> THEN <<>>
    ELSE <<Head(results).val>> \o unwrap_or_unit(Tail(results))

RECURSIVE unwrap_or_replacement(_)
unwrap_or_replacement(results) ==
    IF results = <<>> THEN <<>>
    ELSE <<IF Head(results).ok THEN Head(results).val ELSE REPLACEMENT_CHARACTER>>
         \o unwrap_or_replacement(Tail(results))

\* the characters the Input arm of process_evt hands to process_char_input
resolved_chars(self, wchar) ==
    IF self.pending_surrogate # None
    THEN unwrap_or_replacement(decode_utf16(<<self.pending_surrogate[1], wchar>>))
    ELSE LET first == Head(decode_utf16(<<wchar>>))
         IN  IF first.ok THEN <<first.val>> ELSE <<>>

\* the Input arm of process_evt keeping a new high surrogate as the pending
\* one when it follows a pending surrogate
process_input_keeps_new_high(self, wchar) ==
    IF self.pending_surrogate # None
    THEN IF wchar >= 55296 /\ wchar <= 56319
         THEN [process_char_input(self, <<REPLACEMENT_CHARACTER>>)
                  EXCEPT !.pending_surrogate = Some(wchar)]
         ELSE process_char_input([self EXCEPT !.pending_surrogate = None],
                                 resolved_chars(self, wchar))
    ELSE LET first == Head(decode_utf16(<<wchar>>))
         IN  IF first.ok
             THEN process_char_input(self, <<first.val>>)
             ELSE [self EXCEPT !.pending_surrogate = Some(first.val)]

\* the Input arm of process_evt
process_input(self, wchar) ==
    IF self.pending_surrogate # None
    THEN process_char_input([self EXCEPT !.pending_surrogate = None],
                            resolved_chars(self, wchar))
    ELSE LET first == Head(decode_utf16(<<wchar>>))
         IN  IF first.ok
             THEN process_char_input(self, <<first.val>>)
             ELSE [self EXCEPT !.pending_surrogate = Some(first.val)]

\* process_key_down without the was_previous_state_down test
process_key_down_always_sets(self, key_code, flags) ==
    [self EXCEPT !.pressed = @ \cup {key_code}]

\* process_key_down assigning the negated flag to the bit
process_key_down_assigns_flag(self, key_code, flags) ==
    IF ~flags.was_previous_state_down
    THEN [self EXCEPT !.pressed = @ \cup {key_code}]
    ELSE [self EXCEPT !.pressed = @ \ {key_code}]

\* the KeyDown arm of process_evt
process_key_down(self, key_code, flags) ==
    IF ~flags.was_previous_state_down
    THEN [self EXCEPT !.pressed = @ \cup {key_code}]
    ELSE self

\* the KeyUp arm clearing the whole bit array
process_key_up_releases_all(self, key_code) ==
    [self EXCEPT !.pressed = {}]

\* the KeyUp arm of process_evt
process_key_up(self, key_code) ==
    [self EXCEPT !.pressed = @ \ {key_code}]

\* process_evt whose KeyUp arm clears the bit only when the flags say the
\* key was down before
process_evt_key_up_checks_flags(self, evt) ==
    CASE evt.type = "KeyDown" -> process_key_down(self, evt.key_code, evt.flags)
      [] evt.type = "KeyUp"   -> IF evt.flags.was_previous_state_down
                                 THEN process_key_up(self, evt.key_code)
                                 ELSE self
      [] evt.type = "Input"   -> process_input(self, evt.wchar)

\* Keyboard::process_evt
process_evt(self, evt) ==
    CASE evt.type = "KeyDown" -> process_key_down(self, evt.key_code, evt.flags)
      [] evt.type = "KeyUp"   -> process_key_up(self, evt.key_code)
      [] evt.type = "Input"   -> process_input(self, evt.wchar)

\* Keyboard::is_key_pressed
is_key_pressed(self, key) == key \in self.pressed

\* drain_input that leaves n_backspaces as it is
drain_input_keeps_backspaces(self) ==
    [self EXCEPT !.input_queue = <<>>]

\* drain_input that also discards the pending surrogate
drain_input_clears_pending(self) ==
    [self EXCEPT !.n_backspaces = 0, !.input_queue = <<>>, !.pending_surrogate = None]

\* Keyboard::drain_input: the keyboard it leaves
drain_input(self) ==
    [self EXCEPT !.n_backspaces = 0, !.input_queue = <<>>]

\* Keyboard::drain_input: the InputBuffer it returns
InputBuffer(self) ==
    [n_backspaces |-> self.n_backspaces, chars |-> self.input_queue]

\* reset that keeps the pending surrogate
reset_keeps_pending(self) ==
    [self EXCEPT !.input_queue = <<>>, !.pressed = {}]

\* Keyboard::reset
reset(self) ==
    [self EXCEPT !.input_queue = <<>>, !.pending_surrogate = None, !.pressed = {}]

(***************************************************************************)
(* The caller of the documentation example, and the reference edit buffer. *)
(***************************************************************************)
\* text.truncate(len.saturating_sub(num_backspaces())); text.extend(chars())
caller_apply(t, buf) ==
    LET keep == IF Len(t) >= buf.n_backspaces THEN Len(t) - buf.n_backspaces ELSE 0
    IN  SubSeq(t, 1, keep) \o buf.chars

\* one resolved character applied to an unbounded edit buffer
EditChar(e, c) ==
    IF c = BACKSPACE THEN SubSeq(e, 1, Len(e) - 1)
    ELSE IF is_control(c) /\ ~is_whitespace(c) THEN e
    ELSE Append(e, c)

RECURSIVE EditChars(_, _)
EditChars(e, chars) ==
    IF chars = <<>> THEN e ELSE EditChars(EditChar(e, Head(chars)), Tail(chars))

Queueable(c) == c # BACKSPACE /\ ~(is_control(c) /\ ~is_whitespace(c))

NoBuffer == [n_backspaces |-> 0, chars |-> <<>>]

(***************************************************************************)
(* The unwrap / expect points of the Keyboard.                             *)
(***************************************************************************)
\* the values KeyCode::value() takes: platform virtual-key numbers
KeyCode_values == 1..254

\* number of bits of BitArr!(for 255, in usize, Lsb0): whole usize words
pressed_len == ((255 + 63) \div 64) * 64

\* BitSlice::get on a bit array of a single usize word
pressed_get_one_word(self, index) ==
    IF index < 64 THEN Some(index \in self.pressed) ELSE None

\* BitSlice::get / get_mut on pressed: None when the index is out of range
pressed_get(self, index) ==
    IF index < pressed_len THEN Some(index \in self.pressed) ELSE None

\* bit_for_key / mut_bit_for_key: the unwrap of the bit lookup fails
bit_for_key_fails(self, key) == pressed_get(self, key) = None

\* the trim loop of process_char_input: pop_front().unwrap() fails when the
\* loop runs on an empty queue
RECURSIVE trim_queue_fails(_)
trim_queue_fails(q) ==
    /\ Len(q) >= INPUT_QUEUE_CAPACITY
    /\ (q = <<>> \/ trim_queue_fails(Tail(q)))

process_char_input_fails(self, chars) ==
    trim_queue_fails(apply_chars(self, chars).input_queue)

\* process_evt reaches an unwrap / expect that fails
process_evt_fails(self, evt) ==
    CASE evt.type = "KeyDown" ->
            ~evt.flags.was_previous_state_down /\ bit_for_key_fails(self, evt.key_code)
      [] evt.type = "KeyUp" -> bit_for_key_fails(self, evt.key_code)
      [] evt.type = "Input" ->
            IF self.pending_surrogate # None
            THEN process_char_input_fails([self EXCEPT !.pending_surrogate = None],
                                          resolved_chars(self, evt.wchar))
            ELSE \/ decode_utf16(<<evt.wchar>>) = <<>>
                 \/ LET first == Head(decode_utf16(<<evt.wchar>>))
                    IN  first.ok /\ process_char_input_fails(self, <<first.val>>)

\* is_key_pressed reaches the unwrap of bit_for_key and it fails
is_key_pressed_fails(self, key) == bit_for_key_fails(self, key)

(***************************************************************************)
(* WindowsProcessMessage and its adaptation to a KeyEvent (event.rs).      *)
(*                                                                         *)
(* A message is its identifier (by name), its wparam (a number) and its    *)
(* lparam: the machine word as its eight bytes, most significant first.    *)
(***************************************************************************)
KeyMessageIds == {"WM_KEYDOWN", "WM_SYSKEYDOWN", "WM_KEYUP", "WM_SYSKEYUP", "WM_CHAR"}

\* identifiers of the message stream around the keyboard messages
MessageIds ==
    KeyMessageIds \cup {"WM_DEADCHAR", "WM_IME_CHAR", "WM_PAINT", "WM_CLOSE"}

\* wparam values: 0, backspace, H (0x48), 'h' (0x68), 0x010E, the high
\* surrogate 0xD83D, and 0x10061 whose low 16 bits are 'a'
WParams == {0, 8, 72, 104, 270, 55357, 65633}

\* lparam words: 0x230001, 0xC0230001, 0x20230001, 0xE0230001, 0x40230001,
\* 0x1230001 (extended key), 0x1E230001 (bits 25..28 set), 0x6400230001
\* (bits above 31 set), 0x643E50D570, 0x20600A01, 0x230102 and -1
LParams ==
    { <<0, 0, 0, 0, 0, 35, 0, 1>>,
      <<0, 0, 0, 0, 192, 35, 0, 1>>,
      <<0, 0, 0, 0, 32, 35, 0, 1>>,
      <<0, 0, 0, 0, 224, 35, 0, 1>>,
      <<0, 0, 0, 0, 64, 35, 0, 1>>,
      <<0, 0, 0, 0, 1, 35, 0, 1>>,
      <<0, 0, 0, 0, 30, 35, 0, 1>>,
      <<0, 0, 0, 100, 0, 35, 0, 1>>,
      <<0, 0, 0, 100, 62, 80, 213, 112>>,
      <<0, 0, 0, 0, 32, 96, 10, 1>>,
      <<0, 0, 0, 0, 0, 35, 1, 2>>,
      <<255, 255, 255, 255, 255, 255, 255, 255>> }

WindowsProcessMessage(id, w, l) == [identifier |-> id, wparam |-> w, lparam |-> l]

NoMsg == WindowsProcessMessage("none", 0, <<0, 0, 0, 0, 0, 0, 0, 0>>)

Messages ==
    {WindowsProcessMessage(id, w, l) : id \in MessageIds, w \in WParams, l \in LParams}

\* (lparam as u32).to_be_bytes(): the low 32 bits, most significant byte first
lparam_as_u32_be_bytes(lparam) == SubSeq(lparam, Len(lparam) - 3, Len(lparam))

\* KeystrokeFlags read with three padding bits before is_extended_key
KeystrokeFlags_three_pad_bits(lparam) ==
    LET bytes == lparam_as_u32_be_bytes(lparam)
    IN  [KeystrokeFlagsFrom(bytes) EXCEPT !.is_extended_key = (bytes[1] \div 2) % 2 = 1]

\* From<isize> for KeystrokeFlags / From<LPARAM> for KeystrokeFlags
KeystrokeFlags_from(lparam) == KeystrokeFlagsFrom(lparam_as_u32_be_bytes(lparam))

\* KeyCode::try_from(wparam): the KeyCode of a virtual-key number, if any
KeyCode_try_from(wparam) ==
    IF wparam \in KeyCode_values THEN Some(wparam) ELSE None

\* KeyEvent::is_key_event
is_key_event(msg) ==
    msg.identifier \in {"WM_KEYDOWN", "WM_SYSKEYDOWN", "WM_KEYUP", "WM_SYSKEYUP", "WM_CHAR"}

\* KeyEvent::new without the WM_SYSKEYDOWN / WM_SYSKEYUP alternatives
KeyEvent_new_without_sys(msg) ==
    LET key == KeyCode_try_from(msg.wparam)
        bytes == lparam_as_u32_be_bytes(msg.lparam)
    IN  CASE msg.identifier = "WM_KEYDOWN" ->
                IF key # None THEN Some(KeyDownEvt(key[1], bytes)) ELSE None
          [] msg.identifier = "WM_KEYUP" ->
                IF key # None THEN Some(KeyUpEvt(key[1], bytes)) ELSE None
          [] msg.identifier = "WM_CHAR" ->
                Some(InputEvt(msg.wparam % 65536, bytes))
          [] OTHER -> None

\* KeyEvent::new with the whole wparam for the code unit
KeyEvent_new_whole_wparam(msg) ==
    LET key == KeyCode_try_from(msg.wparam)
        bytes == lparam_as_u32_be_bytes(msg.lparam)
    IN  CASE msg.identifier \in {"WM_KEYDOWN", "WM_SYSKEYDOWN"} ->
                IF key # None THEN Some(KeyDownEvt(key[1], bytes)) ELSE None
          [] msg.identifier \in {"WM_KEYUP", "WM_SYSKEYUP"} ->
                IF key # None THEN Some(KeyUpEvt(key[1], bytes)) ELSE None
          [] msg.identifier = "WM_CHAR" ->
                Some(InputEvt(msg.wparam, bytes))
          [] OTHER -> None

\* KeyEvent::new
KeyEvent_new(msg) ==
    LET key == KeyCode_try_from(msg.wparam)
    IN  CASE msg.identifier \in {"WM_KEYDOWN", "WM_SYSKEYDOWN"} ->
                IF key # None
                THEN Some([type |-> "KeyDown", key_code |-> key[1], wchar |-> 0,
                           flags |-> KeystrokeFlags_from(msg.lparam)])
                ELSE None
          [] msg.identifier \in {"WM_KEYUP", "WM_SYSKEYUP"} ->
                IF key # None
                THEN Some([type |-> "KeyUp", key_code |-> key[1], wchar |-> 0,
                           flags |-> KeystrokeFlags_from(msg.lparam)])
                ELSE None
          [] msg.identifier = "WM_CHAR" ->
                Some([type |-> "Input", key_code |-> 0, wchar |-> msg.wparam % 65536,
                      flags |-> KeystrokeFlags_from(msg.lparam)])
          [] OTHER -> None

\* no message was adapted yet
InitEvt ==
    /\ lastMsg = NoMsg
    /\ adapted = None

(***************************************************************************)
(* The window (window/inner.rs, window/wnd.rs).                            *)
(***************************************************************************)
\* the fields of the WindowInner, with the strong count of the Rc holding it
\* and the user data of its Win32 window
WindowInner ==
    [ hwnd          |-> hwnd,
      user_data     |-> user_data,
      close_request |-> close_request,
      paint_request |-> paint_request,
      strong        |-> strong,
      keyboard      |-> Self ]

\* WindowInner::new: the window exists and its handle is stored; one strong
\* reference is the Window's, one was handed to the Win32 side
WindowInner_new ==
    [ hwnd          |-> 1,
      user_data     |-> 1,
      close_request |-> FALSE,
      paint_request |-> TRUE,
      strong        |-> 2,
      keyboard      |-> new ]

WM_NCDESTROY == WindowsProcessMessage("WM_NCDESTROY", 0, <<0, 0, 0, 0, 0, 0, 0, 0>>)

\* handle_message whose WM_CLOSE arm returns false
handle_message_forwards_close(w, msg) ==
    IF is_key_event(msg)
    THEN [ w |-> IF KeyEvent_new(msg) # None
                 THEN [w EXCEPT !.keyboard = process_evt(@, KeyEvent_new(msg)[1])]
                 ELSE w,
           handled |-> TRUE ]
    ELSE CASE msg.identifier = "WM_PAINT" ->
                [w |-> [w EXCEPT !.paint_request = TRUE], handled |-> FALSE]
           [] msg.identifier = "WM_CLOSE" ->
                [w |-> [w EXCEPT !.close_request = TRUE], handled |-> FALSE]
           [] msg.identifier = "WM_NCDESTROY" ->
                [w |-> [w EXCEPT !.user_data = 0, !.strong = @ - 1, !.hwnd = 0],
                 handled |-> FALSE]
           [] OTHER -> [w |-> w, handled |-> FALSE]

\* handle_message reporting a keyboard message as handled only when an
\* event was made of it
handle_message_handles_only_events(w, msg) ==
    IF is_key_event(msg)
    THEN [ w |-> IF KeyEvent_new(msg) # None
                 THEN [w EXCEPT !.keyboard = process_evt(@, KeyEvent_new(msg)[1])]
                 ELSE w,
           handled |-> KeyEvent_new(msg) # None ]
    ELSE CASE msg.identifier = "WM_PAINT" ->
                [w |-> [w EXCEPT !.paint_request = TRUE], handled |-> FALSE]
           [] msg.identifier = "WM_CLOSE" ->
                [w |-> [w EXCEPT !.close_request = TRUE], handled |-> TRUE]
           [] msg.identifier = "WM_NCDESTROY" ->
                [w |-> [w EXCEPT !.user_data = 0, !.strong = @ - 1, !.hwnd = 0],
                 handled |-> FALSE]
           [] OTHER -> [w |-> w, handled |-> FALSE]

\* WindowInner::handle_message: the window after the message, and whether
\* the message was handled
handle_message(w, msg) ==
    IF is_key_event(msg)
    THEN [ w |-> IF KeyEvent_new(msg) # None
                 THEN [w EXCEPT !.keyboard = process_evt(@, KeyEvent_new(msg)[1])]
                 ELSE w,
           handled |-> TRUE ]
    ELSE CASE msg.identifier = "WM_PAINT" ->
                [w |-> [w EXCEPT !.paint_request = TRUE], handled |-> FALSE]
           [] msg.identifier = "WM_CLOSE" ->
                [w |-> [w EXCEPT !.close_request = TRUE], handled |-> TRUE]
           [] msg.identifier = "WM_NCDESTROY" ->
                \* the reference of the Win32 side is released, the handle cleared
                [w |-> [w EXCEPT !.user_data = 0, !.strong = @ - 1, !.hwnd = 0],
                 handled |-> FALSE]
           [] OTHER -> [w |-> w, handled |-> FALSE]

\* handle_message taking the keyboard without waiting for the lock
handle_message_never_blocks(g, msg) == FALSE

\* handle_message stops in self.keyboard.write(): the message was adapted to
\* an event and a guard of Window::keyboard() holds the lock
handle_message_blocks(g, msg) ==
    is_key_event(msg) /\ KeyEvent_new(msg) # None /\ g

\* the thunk without the release of its extra strong reference
thunk_handle_keeps_retain(w, msg) ==
    IF w.user_data # 0
    THEN LET r == handle_message([w EXCEPT !.strong = @ + 1], msg)
         IN  [w |-> r.w, handled |-> r.handled]
    ELSE [w |-> w, handled |-> FALSE]

\* the body of wnd_proc_thunk up to its return or its DefWindowProcW call:
\* the message goes to handle_message under one more strong reference when
\* the user data is set
thunk_handle(w, msg) ==
    IF w.user_data # 0
    THEN LET r == handle_message([w EXCEPT !.strong = @ + 1], msg)
         IN  [w |-> [r.w EXCEPT !.strong = @ - 1], handled |-> r.handled]
    ELSE [w |-> w, handled |-> FALSE]

\* DestroyWindow: the system sends WM_NCDESTROY to the window procedure
\* while it destroys the window
DestroyWindow(w) == thunk_handle(w, WM_NCDESTROY).w

\* DefWindowProcW: closes the window on WM_CLOSE
DefWindowProcW(w, msg) ==
    IF msg.identifier = "WM_CLOSE" THEN DestroyWindow(w) ELSE w

\* WindowInner::wnd_proc_thunk
wnd_proc_thunk(w, msg) ==
    LET r == thunk_handle(w, msg)
    IN  IF r.handled THEN r.w ELSE DefWindowProcW(r.w, msg)

\* clear_close_request storing false in both flags
clear_close_request_clears_both(w) ==
    [w EXCEPT !.close_request = FALSE, !.paint_request = FALSE]

\* WindowInner::clear_close_request
clear_close_request(w) == [w EXCEPT !.close_request = FALSE]

\* WindowInner::clear_paint_request
clear_paint_request(w) == [w EXCEPT !.paint_request = FALSE]

\* Drop for Window: destroy() calls DestroyWindow, then the Window's
\* reference to the WindowInner goes
Window_drop(w) == [DestroyWindow(w) EXCEPT !.strong = @ - 1]

\* RwLock::new: no guard, nobody waiting
InitLock ==
    /\ guard = FALSE
    /\ waiting = <<>>

InitWin ==
    /\ hwnd = WindowInner_new.hwnd
    /\ user_data = WindowInner_new.user_data
    /\ close_request = WindowInner_new.close_request
    /\ paint_request = WindowInner_new.paint_request
    /\ strong = WindowInner_new.strong
    /\ window = "live"
    /\ handled = FALSE
    /\ lastWin = "new"

(***************************************************************************)
(* The window-class registry (window/class.rs).                            *)
(***************************************************************************)
\* most WindowClass objects ever created, most strong references to one
MaxClassObjects == 3

MaxRefs == 2

\* the prefix WindowInner::new passes, and the icon ids of the model
ClassPrefixes == {"MainWindow"}

IconIds == {None, Some(1)}

\* the class name get_or_create builds: the prefix, then "-{icon}" if any
class_name(prefix, icon_id) ==
    IF icon_id # None THEN <<prefix, "-", icon_id[1]>> ELSE <<prefix>>

ClassNames == {class_name(p, i) : p \in ClassPrefixes, i \in IconIds}

ClassIds == 1..MaxClassObjects

\* the registry map, the WindowClass objects and the system's classes
Registrations ==
    [registry |-> registry, classes |-> classes, sys_classes |-> sys_classes]

\* the identity of the next Arc::new(WindowClass)
fresh_class(cls) ==
    CHOOSE i \in ClassIds :
        /\ cls.classes[i].state = "unborn"
        /\ \A j \in ClassIds : cls.classes[j].state = "unborn" => i <= j

\* SyncWeak::upgrade on a registry entry: the object while its count is not 0
upgrade(cls, entry) ==
    IF entry # 0 /\ cls.classes[entry].strong > 0 THEN Some(entry) ELSE None

\* RegisterClassExW: fails for a class name that is registered
RegisterClassExW(cls, name) ==
    IF name \in cls.sys_classes
    THEN [cls |-> cls, ok |-> FALSE]
    ELSE [cls |-> [cls EXCEPT !.sys_classes = @ \cup {name}], ok |-> TRUE]

\* WindowClass::register: Err (None) when loading the module, cursor or icon
\* fails or when RegisterClassExW fails, else the new WindowClass
register(cls, name, loads_ok) ==
    IF ~loads_ok THEN [cls |-> cls, result |-> None]
    ELSE LET r == RegisterClassExW(cls, name)
             id == fresh_class(cls)
         IN  IF ~r.ok THEN [cls |-> r.cls, result |-> None]
             ELSE [ cls    |-> [r.cls EXCEPT !.classes[id] =
                                    [name |-> name, strong |-> 1, state |-> "live"]],
                    result |-> Some(id) ]

\* register_and_insert that removes the entry when register returned an error
register_and_insert_clears_entry_on_error(cls, name, loads_ok) ==
    LET r == register(cls, name, loads_ok)
    IN  IF r.result = None
        THEN [cls |-> [r.cls EXCEPT !.registry[name] = 0], result |-> None, registers |-> TRUE]
        ELSE [ cls       |-> [r.cls EXCEPT !.registry[name] = r.result[1]],
               result    |-> r.result,
               registers |-> TRUE ]

\* the Vacant arm, and the Occupied arm when upgrade fails: register, and
\* insert the weak reference unless register returned an error
register_and_insert(cls, name, loads_ok) ==
    LET r == register(cls, name, loads_ok)
    IN  IF r.result = None
        THEN [cls |-> r.cls, result |-> None, registers |-> TRUE]
        ELSE [ cls       |-> [r.cls EXCEPT !.registry[name] = r.result[1]],
               result    |-> r.result,
               registers |-> TRUE ]

\* get_or_create that registers whatever the entry holds
get_or_create_always_registers(cls, prefix, icon_id, loads_ok) ==
    register_and_insert(cls, class_name(prefix, icon_id), loads_ok)

\* WindowClass::get_or_create, under the registry lock from start to end
get_or_create(cls, prefix, icon_id, loads_ok) ==
    LET name == class_name(prefix, icon_id)
        entry == cls.registry[name]
    IN  IF entry = 0
        THEN register_and_insert(cls, name, loads_ok)
        ELSE IF upgrade(cls, entry) # None
             THEN [ cls       |-> [cls EXCEPT !.classes[entry].strong = @ + 1],
                    result    |-> Some(entry),
                    registers |-> FALSE ]
             ELSE register_and_insert(cls, name, loads_ok)

\* Arc::clone of a WindowClass reference
clone_class(cls, id) == [cls EXCEPT !.classes[id].strong = @ + 1]

\* drop of one Arc<WindowClass>: the count goes down, and at 0 the drop of
\* the WindowClass is due on the dropping thread
drop_class_ref(cls, id) ==
    [cls EXCEPT !.classes[id] =
        [@ EXCEPT !.strong = @ - 1,
                  !.state = IF cls.classes[id].strong = 1 THEN "dropping" ELSE @]]

\* Drop for WindowClass that leaves the class registered with the system
WindowClass_drop_keeps_registration(cls, id) ==
    [cls EXCEPT !.classes[id].state = "dropped"]

\* Drop for WindowClass: unregister, without the registry lock
WindowClass_drop(cls, id) ==
    [cls EXCEPT !.sys_classes = @ \ {cls.classes[id].name},
                !.classes[id].state = "dropped"]

Called(op, name, result, registers) ==
    [op |-> op, name |-> name, result |-> result, registers |-> registers]

InitCls ==
    /\ registry = [n \in ClassNames |-> 0]
    /\ classes = [i \in ClassIds |-> [name |-> <<>>, strong |-> 0, state |-> "unborn"]]
    /\ sys_classes = {}
    /\ lastCls = Called("none", <<>>, None, FALSE)

(***************************************************************************)
(* The COM library handle of a thread (proc.rs).                           *)
(***************************************************************************)
Threads == {"t1", "t2"}

\* most strong references to a thread's handle, most handles made on a thread
MaxHandles == 2

MaxAcquired == 3

\* the thread-local COM_LIBRARY_HANDLE cells, the counts of the handles they
\* point to, and the COM initialisations of each thread
ComLibrary == [weak |-> com_weak, strong |-> com_strong, init |-> com_init]

\* Weak::upgrade on the cell of thread t
upgrade_handle(com, t) == com.weak[t] # 0 /\ com.strong[t] > 0

\* acquire that initializes COM whether or not a handle is alive
acquire_always_initializes(com, t) ==
    [com EXCEPT !.init[t] = @ + 1, !.weak[t] = @ + 1, !.strong[t] = @ + 1]

\* ComLibraryHandle::acquire on thread t
acquire(com, t) ==
    IF upgrade_handle(com, t)
    THEN [com EXCEPT !.strong[t] = @ + 1]
    ELSE \* CoInitializeEx, Rc::new, cell.replace(Rc::downgrade(&handle))
         [com EXCEPT !.init[t] = @ + 1, !.weak[t] = @ + 1, !.strong[t] = 1]

\* Rc::clone of a handle on thread t
clone_handle(com, t) == [com EXCEPT !.strong[t] = @ + 1]

\* drop of one Rc<ComLibraryHandle> on thread t; Drop for ComLibraryHandle
\* (CoUninitialize) runs when it was the last
drop_handle(com, t) ==
    IF com.strong[t] = 1
    THEN [com EXCEPT !.strong[t] = 0, !.init[t] = @ - 1]
    ELSE [com EXCEPT !.strong[t] = @ - 1]

InitCom ==
    /\ com_weak = [t \in Threads |-> 0]
    /\ com_strong = [t \in Threads |-> 0]
    /\ com_init = [t \in Threads |-> 0]
    /\ lastCom = [op |-> "none", thread |-> "t1", initializes |-> FALSE, uninitializes |-> FALSE]

Dirty == [clean |-> FALSE, chars |-> <<>>]

(***************************************************************************)
(* The order of arrival: arrivals[i] is the position in the stream of the  *)
(* event that queued input_queue[i], counted the positions of the          *)
(* backspaces that incremented n_backspaces since the last drain, lost the *)
(* number of characters queued since the last drain that were evicted or   *)
(* cleared by reset and have not been deleted by a backspace since.        *)
(***************************************************************************)
NoOrder == [arrivals |-> <<>>, counted |-> {}, lost |-> 0]

\* one character of the event at position t took the keyboard from before
\* to after
OrderChar(o, before, after, t) ==
    [ arrivals |-> IF Len(after.input_queue) > Len(before.input_queue)
                   THEN Append(o.arrivals, t)
                   ELSE IF Len(after.input_queue) < Len(before.input_queue)
                   THEN SubSeq(o.arrivals, 1, Len(o.arrivals) - 1)
                   ELSE o.arrivals,
      counted  |-> IF after.n_backspaces > before.n_backspaces
                   THEN o.counted \cup {t}
                   ELSE o.counted,
      lost     |-> IF after.n_backspaces > before.n_backspaces /\ o.lost > 0
                   THEN o.lost - 1
                   ELSE o.lost ]

RECURSIVE OrderChars(_, _, _, _)
OrderChars(o, self, chars, t) ==
    IF chars = <<>> THEN o
    ELSE OrderChars(OrderChar(o, self, apply_char(self, Head(chars)), t),
                    apply_char(self, Head(chars)), Tail(chars), t)

\* the event at position t: its characters, then the trim loop
OrderEvt(o, self, evt, t) ==
    LET chars == IF evt.type = "Input" THEN resolved_chars(self, evt.wchar) ELSE <<>>
        looped == apply_chars(self, chars)
        fed == OrderChars(o, self, chars, t)
        n == Len(looped.input_queue) - Len(trim_queue(looped.input_queue))
    IN  [fed EXCEPT !.arrivals = SubSeq(@, n + 1, Len(@)), !.lost = @ + n]

\* what lastEvt records of an operation: the call, the call before it, and
\* what the history said when it was made
Did(op, evt) ==
    [ op        |-> op,
      evt       |-> evt,
      prev_op   |-> IF op = "new" THEN "new" ELSE lastEvt.op,
      quiet     |-> IF op = "new" THEN TRUE ELSE ~input_since_drain,
      fresh_len |-> IF op = "new" THEN 0
                    ELSE IF fresh_run.clean THEN Len(fresh_run.chars) ELSE -1 ]

(***************************************************************************)
(* Operations.                                                             *)
(***************************************************************************)
SetKeyboard(k) ==
    /\ pressed' = k.pressed
    /\ input_queue' = k.input_queue
    /\ n_backspaces' = k.n_backspaces
    /\ pending_surrogate' = k.pending_surrogate

Init ==
    /\ pressed = new.pressed
    /\ input_queue = new.input_queue
    /\ n_backspaces = new.n_backspaces
    /\ pending_surrogate = new.pending_surrogate
    /\ drained = NoBuffer
    /\ lastEvt = Did("new", NoEvt)
    /\ held = {}
    /\ input_since_drain = FALSE
    /\ fresh_run = [clean |-> TRUE, chars |-> <<>>]
    /\ evicted = FALSE
    /\ reset_called = FALSE
    /\ text = <<>>
    /\ edit = <<>>
    /\ typed = 0
    /\ InitEvt
    /\ InitWin
    /\ InitCls
    /\ InitCom
    /\ order = NoOrder
    /\ InitLock

\* the history every run keeps of a process_evt(evt)
Processed(evt) ==
    LET chars == IF evt.type = "Input" THEN resolved_chars(Self, evt.wchar) ELSE <<>>
        looped == apply_chars(Self, chars)
    IN  /\ drained' = NoBuffer
        /\ lastEvt' = Did("process_evt", evt)
        /\ held' = CASE evt.type = "KeyDown" /\ ~evt.flags.was_previous_state_down
                          -> held \cup {evt.key_code}
                     [] evt.type = "KeyUp" -> held \ {evt.key_code}
                     [] OTHER -> held
        /\ input_since_drain' = (input_since_drain \/ evt.type = "Input")
        /\ fresh_run' = IF evt.type # "Input" THEN fresh_run
                        ELSE IF fresh_run.clean /\ \A i \in 1..Len(chars) : Queueable(chars[i])
                        THEN [fresh_run EXCEPT !.chars = @ \o chars]
                        ELSE Dirty
        /\ evicted' = (evicted \/ Len(looped.input_queue) >= INPUT_QUEUE_CAPACITY)
        /\ UNCHANGED reset_called

\* process_evt(evt) on the keyboard
ProcessEvt(evt) ==
    /\ SetKeyboard(process_evt(Self, evt))
    /\ Processed(evt)

KeyDown(k, lparam) ==
    /\ ProcessEvt(KeyDownEvt(k, lparam))
    /\ UNCHANGED <<text, edit, typed>>
    /\ UNCHANGED <<evtVars, winVars, clsVars, comVars, order, lockVars>>

KeyUp(k, lparam) ==
    /\ ProcessEvt(KeyUpEvt(k, lparam))
    /\ UNCHANGED <<text, edit, typed>>
    /\ UNCHANGED <<evtVars, winVars, clsVars, comVars, order, lockVars>>

\* the caller's text and the edit buffer are followed until the first reset
Input(w) ==
    /\ Len(process_input(Self, w).input_queue) <= MaxText
    /\ Len(EditChars(edit, resolved_chars(Self, w))) <= MaxText
    /\ process_input(Self, w).n_backspaces <= MaxBackspaces
    /\ ProcessEvt(InputEvt(w, CharParam))
    /\ edit' = IF reset_called THEN edit ELSE EditChars(edit, resolved_chars(Self, w))
    /\ UNCHANGED <<text, typed>>
    /\ UNCHANGED <<evtVars, winVars, clsVars, comVars, order, lockVars>>

\* drain_input, and the caller consuming the InputBuffer
Drain ==
    /\ SetKeyboard(drain_input(Self))
    /\ drained' = InputBuffer(Self)
    /\ lastEvt' = Did("drain_input", NoEvt)
    /\ input_since_drain' = FALSE
    /\ fresh_run' = Dirty
    /\ UNCHANGED <<held, evicted, reset_called>>

DrainInput ==
    /\ Drain
    /\ text' = IF reset_called THEN text ELSE caller_apply(text, InputBuffer(Self))
    /\ UNCHANGED <<edit, typed>>
    /\ UNCHANGED <<evtVars, winVars, clsVars, comVars, order, lockVars>>

Cleared ==
    /\ SetKeyboard(reset(Self))
    /\ drained' = NoBuffer
    /\ lastEvt' = Did("reset", NoEvt)
    /\ held' = {}
    /\ fresh_run' = Dirty
    /\ reset_called' = TRUE
    /\ text' = <<>>
    /\ edit' = <<>>
    /\ UNCHANGED <<input_since_drain, evicted, typed>>
    /\ UNCHANGED <<evtVars, winVars, clsVars, comVars, lockVars>>

Reset ==
    /\ Cleared
    /\ UNCHANGED order

Next ==
    \/ \E w \in InputUnits : Input(w)
    \/ DrainInput
    \/ Reset

Spec == Init /\ [][Next]_vars

NextKeys ==
    \/ \E k \in KeyCodes, lparam \in KeyDownParams : KeyDown(k, lparam)
    \/ \E k \in KeyCodes, lparam \in KeyUpParams : KeyUp(k, lparam)
    \/ \E w \in KeyChars : Input(w)
    \/ DrainInput
    \/ Reset

SpecKeys == Init /\ [][NextKeys]_vars

StreamInput ==
    /\ typed < MaxTyped
    /\ \E w \in StreamUnits(typed) : ProcessEvt(InputEvt(w, CharParam))
    /\ typed' = typed + 1
    /\ UNCHANGED <<text, edit>>
    /\ UNCHANGED <<evtVars, winVars, clsVars, comVars, order, lockVars>>

StreamDrain ==
    /\ Drain
    /\ UNCHANGED <<text, edit, typed>>
    /\ UNCHANGED <<evtVars, winVars, clsVars, comVars, order, lockVars>>

NextTrim ==
    \/ StreamInput
    \/ StreamDrain
    \/ Reset

SpecTrim == Init /\ [][NextTrim]_vars

\* a full queue first, and every kind of code unit after it
FullInput ==
    /\ typed < MaxFull
    /\ \E w \in FullUnits(typed) : ProcessEvt(InputEvt(w, CharParam))
    /\ typed' = typed + 1
    /\ UNCHANGED <<text, edit>>
    /\ UNCHANGED <<evtVars, winVars, clsVars, comVars, order, lockVars>>

NextFull ==
    \/ FullInput
    \/ StreamDrain
    \/ Reset

SpecFull == Init /\ [][NextFull]_vars

\* the stream with the order of arrival recorded
OrderInput ==
    /\ typed < MaxOrder
    /\ \E w \in OrderUnits(typed) :
          /\ ProcessEvt(InputEvt(w, CharParam))
          /\ order' = OrderEvt(order, Self, InputEvt(w, CharParam), typed)
    /\ typed' = typed + 1
    /\ UNCHANGED <<text, edit>>
    /\ UNCHANGED <<evtVars, winVars, clsVars, comVars, lockVars>>

OrderDrain ==
    /\ Drain
    /\ order' = NoOrder
    /\ UNCHANGED <<text, edit, typed>>
    /\ UNCHANGED <<evtVars, winVars, clsVars, comVars, lockVars>>

OrderReset ==
    /\ Cleared
    /\ order' = [order EXCEPT !.arrivals = <<>>, !.lost = @ + Len(input_queue)]

NextOrder ==
    \/ OrderInput
    \/ OrderDrain
    \/ OrderReset

SpecOrder == Init /\ [][NextOrder]_vars

(***************************************************************************)
(* Message adaptation alone: KeyEvent::new applied to each message.        *)
(***************************************************************************)
Adapt(msg) ==
    /\ lastMsg' = msg
    /\ adapted' = KeyEvent_new(msg)
    /\ UNCHANGED <<kbdVars, drained, lastEvt, held, input_since_drain, fresh_run, evicted,
                   reset_called, text, edit, typed>>
    /\ UNCHANGED <<winVars, clsVars, comVars, order, lockVars>>

NextEvent == \E msg \in Messages : Adapt(msg)

SpecEvent == Init /\ [][NextEvent]_vars

(***************************************************************************)
(* The window: messages through its window procedure, the request flags,   *)
(* the keyboard behind Window::keyboard(), and the drop of the Window.     *)
(***************************************************************************)
\* the messages the system dispatches to the window: H (0x48) pressed,
\* auto-repeated, pressed with ALT and released, the unmapped key 0x010E
\* pressed and released, the characters 'h' and backspace, a dead
\* character, WM_PAINT and WM_CLOSE
WindowMessages ==
    { WindowsProcessMessage("WM_KEYDOWN", 72, <<0, 0, 0, 0, 0, 35, 0, 1>>),
      WindowsProcessMessage("WM_KEYDOWN", 72, <<0, 0, 0, 0, 64, 35, 0, 1>>),
      WindowsProcessMessage("WM_SYSKEYDOWN", 72, <<0, 0, 0, 0, 32, 35, 0, 1>>),
      WindowsProcessMessage("WM_KEYUP", 72, <<0, 0, 0, 0, 192, 35, 0, 1>>),
      WindowsProcessMessage("WM_KEYDOWN", 270, <<0, 0, 0, 0, 0, 35, 0, 1>>),
      WindowsProcessMessage("WM_KEYUP", 270, <<0, 0, 0, 0, 192, 35, 0, 1>>),
      WindowsProcessMessage("WM_CHAR", 104, <<0, 0, 0, 0, 0, 35, 0, 1>>),
      WindowsProcessMessage("WM_CHAR", 8, <<0, 0, 0, 0, 0, 14, 0, 1>>),
      WindowsProcessMessage("WM_DEADCHAR", 94, <<0, 0, 0, 0, 0, 13, 0, 1>>),
      WindowsProcessMessage("WM_PAINT", 0, <<0, 0, 0, 0, 0, 0, 0, 0>>),
      WindowsProcessMessage("WM_CLOSE", 0, <<0, 0, 0, 0, 0, 0, 0, 0>>) }

SetWindow(w) ==
    /\ hwnd' = w.hwnd
    /\ user_data' = w.user_data
    /\ close_request' = w.close_request
    /\ paint_request' = w.paint_request
    /\ strong' = w.strong
    /\ SetKeyboard(w.keyboard)

\* the system calls wnd_proc_thunk with a message for the window
WndProc(msg) ==
    LET after == wnd_proc_thunk(WindowInner, msg)
        evt == IF is_key_event(msg) THEN KeyEvent_new(msg) ELSE None
    IN  /\ window = "live"
        /\ hwnd # 0
        /\ waiting = None
        /\ ~handle_message_blocks(guard, msg)
        /\ Len(after.keyboard.input_queue) <= MaxText
        /\ after.keyboard.n_backspaces <= MaxBackspaces
        /\ SetWindow(after)
        /\ IF evt # None
           THEN Processed(evt[1])
           ELSE UNCHANGED <<drained, lastEvt, held, input_since_drain, fresh_run, evicted,
                            reset_called>>
        /\ lastMsg' = msg
        /\ adapted' = evt
        /\ handled' = thunk_handle(WindowInner, msg).handled
        /\ lastWin' = "wnd_proc"
        /\ UNCHANGED <<window, text, edit, typed, clsVars, comVars, order, lockVars>>

\* Window::clear_close_request
ClearCloseRequest ==
    /\ window = "live"
    /\ SetWindow(clear_close_request(WindowInner))
    /\ lastWin' = "clear_close_request"
    /\ UNCHANGED <<drained, lastEvt, held, input_since_drain, fresh_run, evicted,
                   reset_called, text, edit, typed>>
    /\ UNCHANGED <<evtVars, window, handled, clsVars, comVars, order, lockVars>>

\* Window::clear_paint_request
ClearPaintRequest ==
    /\ window = "live"
    /\ SetWindow(clear_paint_request(WindowInner))
    /\ lastWin' = "clear_paint_request"
    /\ UNCHANGED <<drained, lastEvt, held, input_since_drain, fresh_run, evicted,
                   reset_called, text, edit, typed>>
    /\ UNCHANGED <<evtVars, window, handled, clsVars, comVars, order, lockVars>>

\* window.keyboard().drain_input()
TakeInput ==
    /\ window = "live"
    /\ Drain
    /\ lastWin' = "keyboard"
    /\ UNCHANGED <<text, edit, typed>>
    /\ UNCHANGED <<hwnd, user_data, close_request, paint_request, strong, window, handled>>
    /\ UNCHANGED <<evtVars, clsVars, comVars, order, lockVars>>

\* the Window is dropped
DropWindow ==
    /\ window = "live"
    /\ hwnd # 0
    /\ SetWindow(Window_drop(WindowInner))
    /\ window' = "dropped"
    /\ lastMsg' = WM_NCDESTROY
    /\ adapted' = None
    /\ handled' = thunk_handle(WindowInner, WM_NCDESTROY).handled
    /\ lastWin' = "drop"
    /\ UNCHANGED <<drained, lastEvt, held, input_since_drain, fresh_run, evicted,
                   reset_called, text, edit, typed>>
    /\ UNCHANGED <<clsVars, comVars, order, lockVars>>

NextWindow ==
    \/ \E msg \in WindowMessages : WndProc(msg)
    \/ ClearCloseRequest
    \/ ClearPaintRequest
    \/ TakeInput
    \/ DropWindow

SpecWindow == Init /\ [][NextWindow]_vars

(***************************************************************************)
(* The window and the guard of Window::keyboard(), on the window's thread: *)
(* the Window is not Send, so the guard, its uses and the messages all run *)
(* on the one thread, which does nothing more once handle_message waits.   *)
(***************************************************************************)
NotKbdVars == <<text, edit, typed, evtVars, clsVars, comVars, order>>

KbdHistory == <<drained, lastEvt, held, input_since_drain, fresh_run, evicted, reset_called>>

\* Window::keyboard(): the write guard is handed out
KeyboardGuard ==
    /\ window = "live"
    /\ ~guard
    /\ waiting = None
    /\ guard' = TRUE
    /\ lastWin' = "keyboard"
    /\ UNCHANGED <<kbdVars, KbdHistory, NotKbdVars, waiting>>
    /\ UNCHANGED <<hwnd, user_data, close_request, paint_request, strong, window, handled>>

\* drain_input through the guard
GuardDrain ==
    /\ guard
    /\ waiting = None
    /\ Drain
    /\ lastWin' = "drain_input"
    /\ UNCHANGED <<NotKbdVars, lockVars>>
    /\ UNCHANGED <<hwnd, user_data, close_request, paint_request, strong, window, handled>>

\* the guard is dropped
GuardDrop ==
    /\ guard
    /\ waiting = None
    /\ guard' = FALSE
    /\ lastWin' = "drop_guard"
    /\ UNCHANGED <<kbdVars, KbdHistory, NotKbdVars, waiting>>
    /\ UNCHANGED <<hwnd, user_data, close_request, paint_request, strong, window, handled>>

\* wnd_proc_thunk is called with a message whose handle_message waits for
\* the lock, under the extra strong reference of the thunk
WndProcBlocked(msg) ==
    /\ window = "live"
    /\ hwnd # 0
    /\ waiting = None
    /\ handle_message_blocks(guard, msg)
    /\ waiting' = Some(msg)
    /\ strong' = strong + 1
    /\ lastMsg' = msg
    /\ adapted' = KeyEvent_new(msg)
    /\ lastWin' = "wnd_proc_waits"
    /\ UNCHANGED <<kbdVars, KbdHistory, text, edit, typed, clsVars, comVars, order, guard>>
    /\ UNCHANGED <<hwnd, user_data, close_request, paint_request, window, handled>>

NextGuard ==
    \/ \E msg \in WindowMessages : WndProc(msg)
    \/ \E msg \in WindowMessages : WndProcBlocked(msg)
    \/ KeyboardGuard
    \/ GuardDrain
    \/ GuardDrop

SpecGuard == Init /\ [][NextGuard]_vars

(***************************************************************************)
(* The window-class registry: get_or_create calls, clones and drops of     *)
(* the references, and the drop of a WindowClass, from any thread.         *)
(***************************************************************************)
SetRegistrations(cls) ==
    /\ registry' = cls.registry
    /\ classes' = cls.classes
    /\ sys_classes' = cls.sys_classes

NotClsVars ==
    <<kbdVars, drained, lastEvt, held, input_since_drain, fresh_run, evicted,
      reset_called, text, edit, typed, evtVars, winVars, comVars, order, lockVars>>

\* WindowClass::get_or_create(prefix, icon_id, ..); loads_ok says whether the
\* system hands out the module handle, the cursor and the icon
GetOrCreate(prefix, icon_id, loads_ok) ==
    LET name == class_name(prefix, icon_id)
        r == get_or_create(Registrations, prefix, icon_id, loads_ok)
    IN  /\ \/ upgrade(Registrations, registry[name]) # None
           \/ \E i \in ClassIds : classes[i].state = "unborn"
        /\ r.result # None => r.cls.classes[r.result[1]].strong <= MaxRefs
        /\ SetRegistrations(r.cls)
        /\ lastCls' = Called("get_or_create", name, r.result, r.registers)
        /\ UNCHANGED NotClsVars

\* a holder clones its Arc<WindowClass>
CloneClass(id) ==
    /\ classes[id].strong > 0
    /\ classes[id].strong < MaxRefs
    /\ SetRegistrations(clone_class(Registrations, id))
    /\ lastCls' = Called("clone", classes[id].name, Some(id), FALSE)
    /\ UNCHANGED NotClsVars

\* a holder drops its Arc<WindowClass>
DropClassRef(id) ==
    /\ classes[id].strong > 0
    /\ SetRegistrations(drop_class_ref(Registrations, id))
    /\ lastCls' = Called("drop_ref", classes[id].name, Some(id), FALSE)
    /\ UNCHANGED NotClsVars

\* the drop of the WindowClass runs on the thread that dropped the last Arc
DropClass(id) ==
    /\ classes[id].state = "dropping"
    /\ SetRegistrations(WindowClass_drop(Registrations, id))
    /\ lastCls' = Called("drop", classes[id].name, Some(id), FALSE)
    /\ UNCHANGED NotClsVars

NextClass ==
    \/ \E p \in ClassPrefixes, i \in IconIds, ok \in BOOLEAN : GetOrCreate(p, i, ok)
    \/ \E id \in ClassIds : CloneClass(id)
    \/ \E id \in ClassIds : DropClassRef(id)
    \/ \E id \in ClassIds : DropClass(id)

SpecClass == Init /\ [][NextClass]_vars

(***************************************************************************)
(* The COM library handles of the threads.                                 *)
(***************************************************************************)
SetComLibrary(com) ==
    /\ com_weak' = com.weak
    /\ com_strong' = com.strong
    /\ com_init' = com.init

NotComVars ==
    <<kbdVars, drained, lastEvt, held, input_since_drain, fresh_run, evicted,
      reset_called, text, edit, typed, evtVars, winVars, clsVars, order, lockVars>>

\* what lastCom records: the call, its thread, and whether it called
\* CoInitializeEx / CoUninitialize
ComCalled(op, t, com) ==
    [ op            |-> op,
      thread        |-> t,
      initializes   |-> com.init[t] > com_init[t],
      uninitializes |-> com.init[t] < com_init[t] ]

\* ComLibraryHandle::acquire() on thread t
Acquire(t) ==
    LET com == acquire(ComLibrary, t)
    IN  /\ com.strong[t] <= MaxHandles
        /\ com.weak[t] <= MaxAcquired
        /\ SetComLibrary(com)
        /\ lastCom' = ComCalled("acquire", t, com)
        /\ UNCHANGED NotComVars

\* a holder on thread t clones its Rc<ComLibraryHandle>
CloneHandle(t) ==
    /\ com_strong[t] > 0
    /\ com_strong[t] < MaxHandles
    /\ SetComLibrary(clone_handle(ComLibrary, t))
    /\ lastCom' = ComCalled("clone", t, clone_handle(ComLibrary, t))
    /\ UNCHANGED NotComVars

\* a holder on thread t drops its Rc<ComLibraryHandle>
DropHandle(t) ==
    /\ com_strong[t] > 0
    /\ SetComLibrary(drop_handle(ComLibrary, t))
    /\ lastCom' = ComCalled("drop", t, drop_handle(ComLibrary, t))
    /\ UNCHANGED NotComVars

NextCom ==
    \/ \E t \in Threads : Acquire(t)
    \/ \E t \in Threads : CloneHandle(t)
    \/ \E t \in Threads : DropHandle(t)

SpecCom == Init /\ [][NextCom]_vars

(***************************************************************************)
(* Vocabulary of the claims.                                               *)
(***************************************************************************)
IsHighSurrogate(u) == u \in 55296..56319       \* 0xD800..0xDBFF

IsLowSurrogate(u) == u \in 56320..57343        \* 0xDC00..0xDFFF

\* the scalar a surrogate pair encodes
PairScalar(h, l) == 65536 + (h - 55296) * 1024 + (l - 56320)

\* the newest INPUT_QUEUE_CAPACITY - 1 elements of q, all of q if it is shorter
KeepNewest(q) ==
    IF Len(q) < INPUT_QUEUE_CAPACITY THEN q
    ELSE SubSeq(q, Len(q) - (INPUT_QUEUE_CAPACITY - 1) + 1, Len(q))

PrintableAscii(chars) == \A i \in 1..Len(chars) : chars[i] >= 32 /\ chars[i] <= 126

\* the step just taken is process_evt of an Input / a KeyDown event, drain_input
InputStep == lastEvt'.op = "process_evt" /\ lastEvt'.evt.type = "Input"

KeyDownStep == lastEvt'.op = "process_evt" /\ lastEvt'.evt.type = "KeyDown"

DrainStep == lastEvt'.op = "drain_input"

\* C1: after any sequence of key events, is_key_pressed(k) holds exactly for
\* the keys whose latest transition is a KeyDown with was_previous_state_down
\* false, with no KeyUp for k and no reset after it.
C1_PressedIffLatestTransitionIsPress ==
    \A k \in 0..254 : is_key_pressed(Self, k) <=> k \in held

\* a key released after a reset while another key, pressed since, is held
C1_Witness ==
    /\ lastEvt.op = "process_evt"
    /\ lastEvt.evt.type = "KeyUp"
    /\ reset_called
    /\ ~is_key_pressed(Self, lastEvt.evt.key_code)
    /\ \E k \in KeyCodes : is_key_pressed(Self, k)

\* C2: a KeyDown event with was_previous_state_down set (bit 30 of the flags
\* word) leaves the press state of every key as it was, also when the
\* repeated key is not pressed.
C2_AutoRepeatKeepsPressState ==
    [][(KeyDownStep /\ lastEvt'.evt.flags.was_previous_state_down)
          => \A k \in 0..254 : is_key_pressed(Self, k)' = is_key_pressed(Self, k)]_vars

\* an auto-repeat KeyDown for a key that is not pressed, another key being
\* pressed: both stay as they were
C2_Witness ==
    /\ lastEvt.op = "process_evt"
    /\ lastEvt.evt.type = "KeyDown"
    /\ lastEvt.evt.flags.was_previous_state_down
    /\ ~is_key_pressed(Self, lastEvt.evt.key_code)
    /\ \E k \in KeyCodes : is_key_pressed(Self, k)

\* C3: drain_input returns zero backspaces and no characters when no Input
\* event was processed since the keyboard was created or last drained; a
\* drain right after a drain is empty.
C3_QuietDrainIsEmpty ==
    [][(DrainStep /\ ~input_since_drain)
          => (drained'.n_backspaces = 0 /\ drained'.chars = <<>>)]_vars

C3_Witness ==
    /\ lastEvt.op = "drain_input"
    /\ lastEvt.prev_op = "drain_input"
    /\ lastEvt.quiet
    /\ pending_surrogate # None

\* C4: on a fresh keyboard, Input events for fewer than
\* INPUT_QUEUE_CAPACITY printable ASCII characters followed by drain_input
\* yield exactly those characters in arrival order, with zero backspaces.
C4_AsciiRunDrainsToItself ==
    [][(/\ DrainStep
        /\ fresh_run.clean
        /\ Len(fresh_run.chars) < INPUT_QUEUE_CAPACITY
        /\ PrintableAscii(fresh_run.chars))
          => (drained'.chars = fresh_run.chars /\ drained'.n_backspaces = 0)]_vars

C4_Witness ==
    /\ lastEvt.op = "drain_input"
    /\ lastEvt.fresh_len = INPUT_QUEUE_CAPACITY - 1
    /\ Len(drained.chars) = INPUT_QUEUE_CAPACITY - 1
    /\ PrintableAscii(drained.chars)
    /\ drained.chars[1] # drained.chars[2]

\* C5: drain_input returns the n_backspaces and the input_queue contents,
\* head to tail, of the moment it is called, leaves n_backspaces 0 and
\* input_queue empty, and leaves pressed and pending_surrogate alone.
C5_DrainTakesCountAndQueue ==
    [][DrainStep
          => /\ drained'.n_backspaces = n_backspaces
             /\ drained'.chars = input_queue
             /\ n_backspaces' = 0
             /\ input_queue' = <<>>
             /\ pressed' = pressed
             /\ pending_surrogate' = pending_surrogate]_vars

C5_Witness ==
    /\ lastEvt.op = "drain_input"
    /\ drained.n_backspaces > 0
    /\ Len(drained.chars) > 1
    /\ pressed # {}
    /\ pending_surrogate # None

C7_LoneLowSurrogateDecodedAtOnce ==
    [][(InputStep /\ pending_surrogate = None /\ IsLowSurrogate(lastEvt'.evt.wchar))
          => /\ pending_surrogate' = None
             /\ input_queue' = KeepNewest(Append(input_queue, REPLACEMENT_CHARACTER))]_vars

\* C8: a backspace Input event with nothing pending removes exactly the
\* newest queued character and leaves n_backspaces alone when input_queue is
\* not empty, and adds exactly 1 to n_backspaces, the queue staying empty,
\* when it is.
C8_BackspacePopsOrCounts ==
    [][(InputStep /\ pending_surrogate = None /\ lastEvt'.evt.wchar = BACKSPACE)
          => IF input_queue # <<>>
             THEN /\ input_queue' = SubSeq(input_queue, 1, Len(input_queue) - 1)
                  /\ n_backspaces' = n_backspaces
             ELSE /\ input_queue' = <<>>
                  /\ n_backspaces' = n_backspaces + 1]_vars

C8_Witness ==
    /\ lastEvt.op = "process_evt"
    /\ lastEvt.evt.type = "Input"
    /\ lastEvt.evt.wchar = BACKSPACE
    /\ n_backspaces = 2
    /\ input_queue = <<9, 97>>
    /\ edit = <<9, 97>>

\* C9: a caller who, at every drain_input, first drops num_backspaces
\* characters from the end of its text and then appends chars(), holds after
\* each drain the text an unbounded edit buffer fed every resolved character
\* holds, as long as reset was never called and nothing was evicted.
C9_CallerTextIsEditBuffer ==
    (lastEvt.op = "drain_input" /\ ~reset_called /\ ~evicted) => text = edit

C9_Witness ==
    /\ lastEvt.op = "drain_input"
    /\ ~reset_called
    /\ ~evicted
    /\ drained.n_backspaces = 2
    /\ drained.chars # <<>>
    /\ Len(text) > Len(drained.chars)

\* C10: after more than INPUT_QUEUE_CAPACITY queueable characters were
\* processed on a fresh keyboard with no drain_input in between, the next
\* drain_input returns exactly the newest INPUT_QUEUE_CAPACITY - 1 of them
\* in arrival order.
C10_OverflowKeepsNewest ==
    [][(DrainStep /\ fresh_run.clean /\ Len(fresh_run.chars) > INPUT_QUEUE_CAPACITY)
          => drained'.chars =
                SubSeq(fresh_run.chars,
                       Len(fresh_run.chars) - (INPUT_QUEUE_CAPACITY - 1) + 1,
                       Len(fresh_run.chars))]_vars

C10_Witness ==
    /\ lastEvt.op = "drain_input"
    /\ lastEvt.fresh_len > INPUT_QUEUE_CAPACITY
    /\ Len(drained.chars) = INPUT_QUEUE_CAPACITY - 1
    /\ evicted
    /\ \E i \in 1..Len(drained.chars) : drained.chars[i] = REPLACEMENT_CHARACTER

\* a Unicode scalar value: a code point outside the surrogate range
IsScalarValue(c) == c \in 0..1114111 /\ ~(c \in 55296..57343)

\* C11: in every reachable state every element of input_queue, and every
\* character a drain_input returned, is a whole Unicode scalar value and
\* never a surrogate code unit; the trim loop drops whole characters, so no
\* half of a surrogate pair is ever retained in the queue.
C11_QueueHoldsScalarValues ==
    /\ \A i \in 1..Len(input_queue) : IsScalarValue(input_queue[i])
    /\ \A i \in 1..Len(drained.chars) : IsScalarValue(drained.chars[i])

\* the queue after an eviction, still holding a character that arrived as a
\* surrogate pair and the replacement of an unpaired unit
C11_Witness ==
    /\ evicted
    /\ Len(input_queue) = INPUT_QUEUE_CAPACITY - 1
    /\ \E i \in 1..Len(input_queue) : input_queue[i] >= 65536
    /\ \E i \in 1..Len(input_queue) : input_queue[i] = REPLACEMENT_CHARACTER

\* the step just taken is reset
ResetStep == lastEvt'.op = "reset"

\* C12: after reset(), from any reachable state, is_key_pressed is false for
\* every key, and a drain_input that immediately follows the reset returns
\* the baseline: zero backspaces and no characters.
C12_ResetRestoresBaseline ==
    [][/\ ResetStep => \A k \in 0..254 : ~is_key_pressed(Self, k)'
       /\ (DrainStep /\ lastEvt.op = "reset")
             => (drained'.n_backspaces = 0 /\ drained'.chars = <<>>)]_vars

\* C13: in every state between operations (after any sequence of
\* process_evt, drain_input and reset calls) input_queue holds at most
\* INPUT_QUEUE_CAPACITY - 1 characters, strictly fewer than the capacity.
C13_QueueBelowCapacity ==
    Len(input_queue) <= INPUT_QUEUE_CAPACITY - 1

\* the queue at its longest, right after an Input event whose character made
\* the trim loop drop the oldest one
C13_Witness ==
    /\ lastEvt.op = "process_evt"
    /\ lastEvt.evt.type = "Input"
    /\ evicted
    /\ typed > INPUT_QUEUE_CAPACITY
    /\ Len(input_queue) = INPUT_QUEUE_CAPACITY - 1

\* the KeyEvents the keyboard is handed: the keys of the model and the
\* smallest and the largest key code with each flags word, and each code
\* unit of the model as an Input event
KeyEvents ==
    LET keys == KeyCodes \cup {1, 254}
    IN  {KeyDownEvt(k, lparam) : k \in keys, lparam \in KeyDownParams}
        \cup {KeyUpEvt(k, lparam) : k \in keys, lparam \in KeyUpParams}
        \cup {InputEvt(w, CharParam) : w \in InputUnits \cup {Letter(typed)}}

\* C14: no operation of the Keyboard fails after construction: in every
\* reachable state, process_evt of every KeyEvent passes the unwrap of the
\* pressed-bit lookup, the expect of the first result of the single-unit
\* decode and the unwrap of pop_front in the trim loop, and is_key_pressed
\* passes the same bit lookup for every key code; drain_input and reset
\* contain no such point.
C14_NoOperationFails ==
    /\ \A evt \in KeyEvents : ~process_evt_fails(Self, evt)
    /\ \A k \in KeyCode_values : ~is_key_pressed_fails(Self, k)

\* a full queue with a surrogate pending: the next Input event pushes two
\* characters and the trim loop pops two
C14_Witness ==
    /\ Len(input_queue) = INPUT_QUEUE_CAPACITY - 1
    /\ pending_surrogate # None
    /\ Len(process_evt(Self, InputEvt(97, CharParam)).input_queue) = INPUT_QUEUE_CAPACITY - 1
    /\ Len(apply_chars([Self EXCEPT !.pending_surrogate = None],
                       resolved_chars(Self, 97)).input_queue) = INPUT_QUEUE_CAPACITY + 1

\* C15: KeyEvent::new classifies a message by identifier: WM_KEYDOWN or
\* WM_SYSKEYDOWN yields KeyDown exactly when the key parameter maps to a
\* KeyCode and no event otherwise; WM_KEYUP or WM_SYSKEYUP likewise yields
\* KeyUp or no event; every identifier other than these and WM_CHAR (such as
\* WM_DEADCHAR, WM_IME_CHAR) yields no event; so new(msg) is Some only if
\* is_key_event(msg).
C15_NewClassifiesByIdentifier ==
    lastMsg # NoMsg =>
        LET id == lastMsg.identifier
            key == KeyCode_try_from(lastMsg.wparam)
        IN  /\ id \in {"WM_KEYDOWN", "WM_SYSKEYDOWN"} =>
                 IF key # None
                 THEN /\ adapted # None
                      /\ adapted[1].type = "KeyDown"
                      /\ adapted[1].key_code = key[1]
                 ELSE adapted = None
            /\ id \in {"WM_KEYUP", "WM_SYSKEYUP"} =>
                 IF key # None
                 THEN /\ adapted # None
                      /\ adapted[1].type = "KeyUp"
                      /\ adapted[1].key_code = key[1]
                 ELSE adapted = None
            /\ id \notin {"WM_KEYDOWN", "WM_SYSKEYDOWN", "WM_KEYUP", "WM_SYSKEYUP", "WM_CHAR"}
                 => adapted = None
            /\ adapted # None => is_key_event(lastMsg)

\* WM_SYSKEYUP for the key H made a KeyUp event
C15_Witness ==
    /\ lastMsg.identifier = "WM_SYSKEYUP"
    /\ lastMsg.wparam = 72
    /\ adapted # None
    /\ adapted[1].type = "KeyUp"
    /\ adapted[1].key_code = 72

\* C16: for a WM_CHAR message KeyEvent::new always succeeds, whatever the
\* parameters, and makes an Input event whose code unit is the key parameter
\* modulo 2^16 and whose flags are the decoding of the flags parameter.
C16_CharAlwaysMakesInput ==
    lastMsg.identifier = "WM_CHAR" =>
        /\ adapted # None
        /\ adapted[1].type = "Input"
        /\ adapted[1].wchar \in 0..65535
        /\ \E q \in 0..32767 : lastMsg.wparam = q * 65536 + adapted[1].wchar
        /\ adapted[1].flags = KeystrokeFlags_from(lastMsg.lparam)

\* WM_CHAR with the key parameter 0x10061 made the code unit 0x61
C16_Witness ==
    /\ lastMsg.identifier = "WM_CHAR"
    /\ lastMsg.wparam = 65633
    /\ adapted # None
    /\ adapted[1].wchar = 97

\* bit i of an lparam word
Bit(lparam, i) == (lparam[Len(lparam) - (i \div 8)] \div (2 ^ (i % 8))) % 2

\* the bits from..to of an lparam word as a number, bit from the lowest
RECURSIVE Bits(_, _, _)
Bits(lparam, from, to) ==
    IF from > to THEN 0 ELSE Bit(lparam, from) + 2 * Bits(lparam, from + 1, to)

\* the bits of an lparam word that the layout of KeystrokeFlags names
LayoutBits == (0..24) \cup (29..31)

\* C17: KeystrokeFlags decoding is total and follows the fixed layout for
\* every raw value: is_key_release is bit 31, was_previous_state_down bit 30,
\* is_alt_pressed bit 29, is_extended_key bit 24, scan_code bits 16..23 and
\* repeat_count bits 0..15; two raw values that differ only in bits 25..28
\* or in bits above bit 31 of the machine word decode to the same flags.
C17_FlagsFollowLayout ==
    lastMsg # NoMsg =>
        LET raw == lastMsg.lparam
            flags == KeystrokeFlags_from(raw)
        IN  /\ flags.is_key_release = (Bit(raw, 31) = 1)
            /\ flags.was_previous_state_down = (Bit(raw, 30) = 1)
            /\ flags.is_alt_pressed = (Bit(raw, 29) = 1)
            /\ flags.is_extended_key = (Bit(raw, 24) = 1)
            /\ flags.scan_code = Bits(raw, 16, 23)
            /\ flags.repeat_count = Bits(raw, 0, 15)
            /\ adapted # None => adapted[1].flags = flags
            /\ \A other \in LParams :
                  (\A i \in LayoutBits : Bit(other, i) = Bit(raw, i))
                     => KeystrokeFlags_from(other) = flags

\* the word 0x1E230001 was decoded: it differs from 0x230001 of the inputs
\* only in bits 25..28, and from 0x6400230001 in those and in bits above 31
C17_Witness ==
    /\ lastMsg.lparam = <<0, 0, 0, 0, 30, 35, 0, 1>>
    /\ adapted # None
    /\ ~adapted[1].flags.is_extended_key
    /\ adapted[1].flags.scan_code = 35
    /\ \E other \in LParams :
          /\ other # lastMsg.lparam
          /\ other[4] # 0
          /\ \A i \in LayoutBits : Bit(other, i) = Bit(lastMsg.lparam, i)

\* the step just taken dispatched a message to the window procedure
WndProcStep == lastWin' = "wnd_proc"

\* C18: receiving WM_CLOSE never closes the window: handle_message records
\* the close request and reports the message as handled, so it is not
\* forwarded to the default window procedure, and the window handle stays
\* non-null until the Window object is dropped.
C18_CloseIsOnlyRequested ==
    [][/\ (WndProcStep /\ lastMsg'.identifier = "WM_CLOSE")
             => (close_request' /\ handled' /\ hwnd' = hwnd /\ hwnd' # 0)
       /\ window' = "live" => hwnd' # 0]_vars

\* WM_CLOSE was dispatched after the paint request had been cleared: the
\* close request is set, the message handled, the window still has its handle
C18_Witness ==
    /\ lastWin = "wnd_proc"
    /\ lastMsg.identifier = "WM_CLOSE"
    /\ close_request
    /\ handled
    /\ window = "live"
    /\ hwnd # 0
    /\ ~paint_request

\* C19: while at least one strong reference to a WindowClass of a class name
\* (the prefix plus the optional icon id) is alive, get_or_create for the
\* same name returns a reference to that same registration and does not
\* register the class with the system again.
C19_LiveClassIsReused ==
    [][\A id \in ClassIds :
          (/\ lastCls'.op = "get_or_create"
           /\ classes[id].strong > 0
           /\ classes[id].name = lastCls'.name)
             => /\ lastCls'.result = Some(id)
                /\ ~lastCls'.registers
                /\ classes'[id].strong = classes[id].strong + 1
                /\ sys_classes' = sys_classes
                /\ registry' = registry]_vars

\* get_or_create returned a second reference to the registration that
\* replaced a dropped one of the same name
C19_Witness ==
    /\ lastCls.op = "get_or_create"
    /\ ~lastCls.registers
    /\ lastCls.result # None
    /\ classes[lastCls.result[1]].strong = 2
    /\ lastCls.name \in sys_classes
    /\ \E old \in ClassIds :
          classes[old].state = "dropped" /\ classes[old].name = lastCls.name

\* C20: on each thread the COM library is initialized exactly while at least
\* one handle returned by acquire on that thread is alive: acquire
\* initializes COM only when no handle is alive and otherwise returns the
\* existing handle, CoUninitialize runs only when the last handle is
\* dropped, and the initialize / uninitialize calls of a thread alternate
\* however acquires and drops are interleaved.
C20_ComInitializedWhileHeld ==
    [][LET t == lastCom'.thread
       IN  /\ \A u \in Threads : com_init'[u] = IF com_strong'[u] > 0 THEN 1 ELSE 0
           /\ lastCom'.op = "acquire" =>
                 /\ lastCom'.initializes <=> com_strong[t] = 0
                 /\ com_strong[t] > 0 =>
                       (com_weak'[t] = com_weak[t] /\ com_strong'[t] = com_strong[t] + 1)
           /\ lastCom'.uninitializes <=> (lastCom'.op = "drop" /\ com_strong[t] = 1)
           /\ lastCom'.initializes => (com_init[t] = 0 /\ com_init'[t] = 1)
           /\ lastCom'.uninitializes => (com_init[t] = 1 /\ com_init'[t] = 0)]_vars

\* a thread acquired the handle again while it held one, its first handle
\* having been dropped before, and another thread holds none
C20_Witness ==
    /\ lastCom.op = "acquire"
    /\ ~lastCom.initializes
    /\ com_weak[lastCom.thread] = 2
    /\ com_strong[lastCom.thread] = 2
    /\ com_init[lastCom.thread] = 1
    /\ \E u \in Threads : com_weak[u] > 0 /\ com_strong[u] = 0 /\ com_init[u] = 0

\* the step just taken is process_evt of a KeyUp event
KeyUpStep == lastEvt'.op = "process_evt" /\ lastEvt'.evt.type = "KeyUp"

\* C21: a KeyUp event for key k makes is_key_pressed(k) false whatever its
\* flags, whether or not k was pressed before, and without a preceding
\* KeyDown for k.
C21_KeyUpAlwaysReleases ==
    [][KeyUpStep => ~is_key_pressed(Self', lastEvt'.evt.key_code)]_vars

\* the first operation on the keyboard is a KeyUp whose flags say the key
\* was up before
C21_Witness ==
    /\ lastEvt.op = "process_evt"
    /\ lastEvt.evt.type = "KeyUp"
    /\ lastEvt.prev_op = "new"
    /\ ~lastEvt.evt.flags.was_previous_state_down
    /\ ~is_key_pressed(Self, lastEvt.evt.key_code)

\* C22: when a surrogate is pending, the next Input event feeds exactly one
\* character into character processing: the combined scalar if the pending
\* unit and the new code unit form a valid surrogate pair, otherwise a
\* single U+FFFD, whatever the new code unit is.
C22_PendingResolvesToOneChar ==
    [][(InputStep /\ pending_surrogate # None)
          => resolved_chars(Self, lastEvt'.evt.wchar) =
                <<IF IsHighSurrogate(pending_surrogate[1])
                     /\ IsLowSurrogate(lastEvt'.evt.wchar)
                  THEN PairScalar(pending_surrogate[1], lastEvt'.evt.wchar)
                  ELSE REPLACEMENT_CHARACTER>>]_vars

\* C23: in every reachable state, if pending_surrogate is set then the code
\* unit stored there is a UTF-16 high surrogate (0xD800..0xDBFF); a low
\* surrogate or a non-surrogate code unit is never stored there.
C23_PendingIsHighSurrogate ==
    pending_surrogate # None => IsHighSurrogate(pending_surrogate[1])

\* C24: an Input event processed while a surrogate is pending leaves
\* pending_surrogate empty, whatever the new code unit is; an Input event
\* with a high surrogate processed while nothing is pending stores it and
\* changes neither input_queue nor n_backspaces.
C24_PendingIsConsumedOrStored ==
    [][InputStep =>
         /\ pending_surrogate # None => pending_surrogate' = None
         /\ (pending_surrogate = None /\ IsHighSurrogate(lastEvt'.evt.wchar))
               => /\ pending_surrogate' = Some(lastEvt'.evt.wchar)
                  /\ input_queue' = input_queue
                  /\ n_backspaces' = n_backspaces]_vars

\* a high surrogate arrived while another was pending: both became
\* replacement characters and nothing is pending
C24_Witness ==
    /\ lastEvt.op = "process_evt" /\ lastEvt.evt.type = "Input"
    /\ IsHighSurrogate(lastEvt.evt.wchar)
    /\ pending_surrogate = None
    /\ input_queue = <<REPLACEMENT_CHARACTER, REPLACEMENT_CHARACTER>>

\* control characters of the claim: U+0000, escape, delete are not
\* whitespace; tab, newline, carriage return are
DroppedControls == {0, 27, 127}

WhitespaceControls == {9, 10, 13}

\* what an Input event of code unit c makes of the keyboard in this state
AfterInput(c) == process_evt(Self, InputEvt(c, CharParam))

\* the queue once the pending surrogate, if any, has been resolved: a
\* pending unit followed by a control character becomes U+FFFD
QueueUnderControl ==
    IF pending_surrogate = None THEN input_queue
    ELSE Append(input_queue, REPLACEMENT_CHARACTER)

\* C25: in every reachable state, a resolved control character that is not
\* whitespace and not backspace (U+0000, U+001B, U+007F) leaves input_queue
\* and n_backspaces as they are, and a whitespace control character (tab,
\* newline, carriage return) is appended to the tail of input_queue.
C25_ControlsDroppedWhitespaceQueued ==
    /\ \A c \in DroppedControls :
          /\ AfterInput(c).input_queue = QueueUnderControl
          /\ AfterInput(c).n_backspaces = n_backspaces
    /\ \A c \in WhitespaceControls :
          /\ AfterInput(c).input_queue = Append(QueueUnderControl, c)
          /\ AfterInput(c).n_backspaces = n_backspaces

\* a tab was queued and the escape that followed it was dropped
C25_Witness ==
    /\ lastEvt.op = "process_evt" /\ lastEvt.evt.type = "Input"
    /\ lastEvt.evt.wchar = 27
    /\ lastEvt.prev_op = "process_evt"
    /\ input_queue = <<97, 9>>
    /\ n_backspaces = 0

\* the characters applied one at a time, the queue trimmed after each
RECURSIVE EvictAfterEach(_, _)
EvictAfterEach(self, chars) ==
    IF chars = <<>> THEN self
    ELSE EvictAfterEach([apply_char(self, Head(chars)) EXCEPT !.input_queue = trim_queue(@)],
                        Tail(chars))

\* C26: the capacity check is applied after each individual character: the
\* queue and the backspace count an Input event leaves are those of applying
\* its resolved characters one at a time and evicting from the head after
\* each of them.
C26_EvictsAfterEachCharacter ==
    [][InputStep =>
         LET each == EvictAfterEach(Self, resolved_chars(Self, lastEvt'.evt.wchar))
         IN  /\ input_queue' = each.input_queue
             /\ n_backspaces' = each.n_backspaces]_vars

\* s is the tail end of t
IsSuffix(s, t) ==
    /\ Len(s) <= Len(t)
    /\ s = SubSeq(t, Len(t) - Len(s) + 1, Len(t))

\* C27: eviction is oldest-first and never reorders: after any Input event
\* input_queue is a contiguous suffix of the queue before the event followed
\* by the characters the event appended, backspaces applied.
C27_QueueIsSuffixOfAppended ==
    [][InputStep =>
         IsSuffix(input_queue',
                  EditChars(input_queue, resolved_chars(Self, lastEvt'.evt.wchar)))]_vars

\* two letters have been evicted from the head: the queue starts at the
\* third letter of the stream and ends at the newest
C27_Witness ==
    /\ lastEvt.op = "process_evt" /\ lastEvt.evt.type = "Input"
    /\ evicted
    /\ Len(input_queue) = INPUT_QUEUE_CAPACITY - 1
    /\ input_queue[1] = Letter(2)
    /\ input_queue[Len(input_queue)] = lastEvt.evt.wchar

\* C28: every backspace counted in n_backspaces targets text the caller has
\* already drained: n_backspaces is never incremented while a character
\* queued since the last drain_input, and evicted or cleared by reset since,
\* is still the one the backspace deletes.
C28_CountedBackspaceTargetsDrainedText ==
    [][(InputStep /\ n_backspaces' > n_backspaces) => order.lost = 0]_vars

\* C29: at every drain_input, each backspace counted in num_backspaces() was
\* processed before every character returned by chars() in that drain
\* arrived: no backspace processed after a still-queued character is counted.
C29_CountedBackspacesPrecedeChars ==
    [][DrainStep =>
         /\ Cardinality(order.counted) = drained'.n_backspaces
         /\ Len(order.arrivals) = Len(drained'.chars)
         /\ \A b \in order.counted : \A i \in 1..Len(order.arrivals) :
               b < order.arrivals[i]]_vars

\* a drain returned a counted backspace together with characters
C29_Witness ==
    /\ lastEvt.op = "drain_input"
    /\ drained.n_backspaces > 0
    /\ Len(drained.chars) > 1

\* C30: key transitions and text input are independent: a KeyDown or KeyUp
\* event leaves input_queue, n_backspaces and pending_surrogate unchanged
\* and changes at most the pressed bit of its own key code, and an Input
\* event leaves every pressed bit unchanged.
C30_KeysAndTextAreIndependent ==
    [][/\ (KeyDownStep \/ KeyUpStep)
            => /\ input_queue' = input_queue
               /\ n_backspaces' = n_backspaces
               /\ pending_surrogate' = pending_surrogate
               /\ \A k \in 0..254 :
                     k # lastEvt'.evt.key_code
                        => (is_key_pressed(Self', k) <=> is_key_pressed(Self, k))
       /\ InputStep
            => \A k \in 0..254 : is_key_pressed(Self', k) <=> is_key_pressed(Self, k)]_vars

\* a key went down between the two halves of a surrogate pair, with text
\* queued and the other key held
C30_Witness ==
    /\ lastEvt.op = "process_evt" /\ lastEvt.evt.type = "KeyDown"
    /\ lastEvt.prev_op = "process_evt"
    /\ pending_surrogate # None
    /\ input_queue # <<>>
    /\ Cardinality(pressed) = 2

\* the positions of q that hold a scalar value made of a surrogate pair
PairScalars(q) == {i \in 1..Len(q) : q[i] >= 65536}

\* C31: reset() discards a pending surrogate: nothing is pending after it,
\* and an Input event processed while nothing is pending (the low surrogate
\* that follows the reset) queues no scalar value combined from a pair.
C31_ResetDiscardsPending ==
    [][/\ ResetStep => pending_surrogate' = None
       /\ (InputStep /\ pending_surrogate = None)
             => Cardinality(PairScalars(input_queue')) <= Cardinality(PairScalars(input_queue))]_vars

\* the low surrogate arrived right after a reset that followed other input:
\* nothing was queued for it
C31_Witness ==
    /\ lastEvt.op = "process_evt" /\ lastEvt.evt.type = "Input"
    /\ IsLowSurrogate(lastEvt.evt.wchar)
    /\ lastEvt.prev_op = "reset"
    /\ input_since_drain
    /\ input_queue = <<>>
    /\ drained = NoBuffer

\* the message is a key-down or key-up message
IsKeyTransition(msg) ==
    msg.identifier \in {"WM_KEYDOWN", "WM_SYSKEYDOWN", "WM_KEYUP", "WM_SYSKEYUP"}

\* C32: a key-down or key-up message whose key parameter maps to no KeyCode
\* produces no KeyEvent and leaves the Keyboard of the window unchanged, yet
\* handle_message reports it as handled, as it does for every message
\* recognised as a keyboard message.
C32_UnmappedKeyIsHandledAndDropped ==
    [][/\ (WndProcStep /\ IsKeyTransition(lastMsg') /\ KeyCode_try_from(lastMsg'.wparam) = None)
             => /\ adapted' = None
                /\ Self' = Self
                /\ handled'
       /\ (WndProcStep /\ is_key_event(lastMsg')) => handled']_vars

\* a key-up message of an unknown key arrived while a key was down and text
\* was queued: it was handled and changed nothing
C32_Witness ==
    /\ lastWin = "wnd_proc"
    /\ lastMsg.identifier = "WM_KEYUP"
    /\ KeyCode_try_from(lastMsg.wparam) = None
    /\ adapted = None
    /\ handled
    /\ pressed # {}
    /\ input_queue # <<>>

\* C33: the request flags of the window are latches: close_request starts
\* false, is set only by handling WM_CLOSE and cleared only by
\* clear_close_request; paint_request starts true, is set only by handling
\* WM_PAINT and cleared only by clear_paint_request; no other message or
\* operation changes either flag.
C33_RequestFlagsAreLatches ==
    [][/\ lastWin = "new" => (~close_request /\ paint_request)
       /\ (~close_request /\ close_request')
             => (WndProcStep /\ lastMsg'.identifier = "WM_CLOSE")
       /\ (close_request /\ ~close_request')
             => lastWin' = "clear_close_request"
       /\ (~paint_request /\ paint_request')
             => (WndProcStep /\ lastMsg'.identifier = "WM_PAINT")
       /\ (paint_request /\ ~paint_request')
             => lastWin' = "clear_paint_request"
       /\ (WndProcStep /\ lastMsg'.identifier = "WM_CLOSE") => close_request'
       /\ (WndProcStep /\ lastMsg'.identifier = "WM_PAINT") => paint_request'
       /\ lastWin' = "clear_close_request" => ~close_request'
       /\ lastWin' = "clear_paint_request" => ~paint_request']_vars

\* a keyboard message was handled while a close request was standing and the
\* paint request had been cleared: both flags are as they were
C33_Witness ==
    /\ lastWin = "wnd_proc"
    /\ is_key_event(lastMsg)
    /\ adapted # None
    /\ close_request
    /\ ~paint_request

\* C34: under any interleaving of get_or_create calls and drops of the last
\* strong reference, get_or_create never attempts to register a class name
\* that is still registered with the system.
C34_RegistersOnlyUnregisteredNames ==
    [][(lastCls'.op = "get_or_create" /\ lastCls'.registers)
          => ~(lastCls'.name \in sys_classes)]_vars

\* the registry entry of the name points to a WindowClass whose last strong
\* reference was dropped and whose drop has run
Stale(name) ==
    /\ registry[name] # 0
    /\ classes[registry[name]].state = "dropped"

C36_FailedRegistrationLeavesRegistry ==
    [][(lastCls'.op = "get_or_create" /\ lastCls'.result = None)
          => /\ lastCls'.registers
             /\ registry' = registry
             /\ classes' = classes
             /\ sys_classes' = sys_classes
             /\ \A p \in ClassPrefixes, i \in IconIds, ok \in BOOLEAN :
                   (/\ class_name(p, i) = lastCls'.name
                    /\ \E id \in ClassIds : classes'[id].state = "unborn")
                      => get_or_create(Registrations', p, i, ok).registers]_vars

\* registration failed for a name whose registry entry is stale: the entry
\* still points to the dropped WindowClass
C36_Witness ==
    /\ lastCls.op = "get_or_create"
    /\ lastCls.result = None
    /\ lastCls.registers
    /\ registry[lastCls.name] # 0
    /\ classes[registry[lastCls.name]].state = "dropped"
    /\ ~(lastCls.name \in sys_classes)

\* C37: keyboard events are never processed while a guard returned by
\* Window::keyboard() is outstanding: handle_message needs the same lock
\* before process_evt, so a keyboard message dispatched while the guard is
\* held waits, and as it waits on the thread that holds the guard, neither
\* the guard is dropped nor the message processed.
C37_NoEventProcessedUnderGuard ==
    [][/\ (WndProcStep /\ adapted' # None) => (~guard /\ ~guard')
       /\ guard => (pressed' = pressed /\ pending_surrogate' = pending_surrogate
                    /\ Len(input_queue') <= Len(input_queue)
                    /\ n_backspaces' <= n_backspaces)
       /\ (guard /\ lastMsg' # lastMsg /\ is_key_event(lastMsg') /\ KeyEvent_new(lastMsg') # None)
             => (waiting' = Some(lastMsg') /\ Self' = Self)
       /\ waiting # None => (guard /\ guard' /\ waiting' = waiting /\ Self' = Self)]_vars

\* a character message was dispatched while the guard was held, with text
\* queued: its handle_message waits for the lock
C37_Witness ==
    /\ guard
    /\ waiting # None
    /\ waiting[1].identifier = "WM_CHAR"
    /\ input_queue # <<>>
    /\ lastWin = "wnd_proc_waits"

\* C38: at no point, the middle of a process_evt call included, does
\* input_queue hold more than INPUT_QUEUE_CAPACITY characters: not after any
\* of the characters of an Input event has been applied, and not in any
\* state between calls.
C38_QueueNeverExceedsCapacity ==
    [][/\ Len(input_queue) <= INPUT_QUEUE_CAPACITY
       /\ Len(input_queue') <= INPUT_QUEUE_CAPACITY
       /\ InputStep =>
             LET chars == resolved_chars(Self, lastEvt'.evt.wchar)
             IN  \A n \in 0..Len(chars) :
                    Len(apply_chars(Self, SubSeq(chars, 1, n)).input_queue)
                       <= INPUT_QUEUE_CAPACITY]_vars

\* strong references held: one by the Window while it lives, one by the
\* Win32 side while the user data of the window is set
ReferencesHeld == (IF window = "live" THEN 1 ELSE 0) + user_data

\* C39: the strong reference to the WindowInner handed to the Win32 side is
\* released exactly once, when WM_NCDESTROY is handled, which also sets the
\* stored window handle to null; any other message handled through
\* wnd_proc_thunk leaves the strong count as it was.
C39_Win32ReferenceReleasedOnce ==
    [][/\ strong = ReferencesHeld
       /\ strong' = ReferencesHeld'
       /\ WndProcStep => (strong' = strong /\ user_data' = user_data /\ hwnd' = hwnd)
       /\ user_data' # user_data
             => /\ user_data = 1
                /\ user_data' = 0
                /\ lastMsg' = WM_NCDESTROY
                /\ hwnd' = 0
       /\ user_data = 0 => (user_data' = 0 /\ strong' = strong)]_vars

\* messages were handled, then the Window was dropped: WM_NCDESTROY released
\* the reference of the Win32 side and cleared the handle
C39_Witness ==
    /\ lastWin = "drop"
    /\ lastMsg = WM_NCDESTROY
    /\ user_data = 0
    /\ hwnd = 0
    /\ strong = 0
    /\ input_queue # <<>>
    /\ close_request

====
